---- MODULE Spec2Model ----
(***************************************************************************)
(* The game room (GameRoom durable object) as a state machine.             *)
(*                                                                         *)
(* One action per inbound event: a websocket message of each type, the     *)
(* wake-up timer, a new connection, and the passing of time.  A handler is *)
(* an operator from the room's state (a record) to its state: alarm() is   *)
(* called from several handlers and from itself, so it is an operator the  *)
(* handlers compose.                                                       *)
(*                                                                         *)
(* Conventions:                                                            *)
(*  - a playerId is the player's index in the players array (the code      *)
(*    draws a fresh random id per join and looks players up by id);        *)
(*  - a cell id is the cell's index in the grid array (the code derives    *)
(*    the id from the cell's coordinates, which are unique);               *)
(*  - a conflictId is the conflict's index in pending.conflicts (the code  *)
(*    builds it from the contended reference and Date.now());              *)
(*  - times are kept relative to Date.now(): phaseEndsAt and the alarm     *)
(*    hold the milliseconds left, 0 meaning the deadline has passed;       *)
(*  - a JS object used as an ordered map (pending.buy, pending.market) is  *)
(*    a sequence of entries in key insertion order;                        *)
(*  - Math.random() is a generator whose seed (a cyclic stream of die      *)
(*    faces and a board) is fixed by the initial state.                    *)
(***************************************************************************)
EXTENDS Integers, Sequences, FiniteSets, TLC

VARIABLES
  config,          \* storage 'config'
  players,         \* storage 'players'
  grid,            \* storage 'grid'
  pending,         \* storage 'pendingActions'
  submittedPaths,  \* storage 'submittedPaths'
  winnerId,        \* storage 'winnerId'
  alarmAt,         \* the durable object's alarm
  sockets,         \* accepted websockets with their attachments
  roomId,          \* storage 'roomId'
  lobby,           \* the Lobby's storage, and whether calls to the Lobby fail
  rng,             \* the random generator
  trace,           \* the event handled by the last step and the messages it sent
  res,             \* input and output of the last step's conflict resolution
  roundPhases,     \* the phases stored into config since the round began, in order
  observing,       \* whether trace is recorded in this run
  movesLeft,       \* how many more player messages may change the stored state
  asked            \* the buy_cell and buy_cell_cancel messages of this buy_phase, when kept

vars == <<config, players, grid, pending, submittedPaths, winnerId, alarmAt,
          sockets, roomId, lobby, rng, trace, res, roundPhases, observing, movesLeft, asked>>

storage == <<config, players, grid, pending, submittedPaths, winnerId>>

----------------------------------------------------------------------------
(* Program constants *)

STARTING_MONEY == 10
MARKET_MIN_PRICE == 1
MARKET_DURATION_MS == 30000
AUCTION_DURATION_MS == 30000
BUY_DURATION_MS == 90000
PATH_DURATION_MS == 90000
ROOM_CLEANUP_DELAY_MS == 300000
ROUND_START_DELAY_MS == 2000
ROUND_END_DELAY_MS == 5000
RECYCLE_PAYMENT == 3
HAND_SIZE == 3
MIN_PLAYERS == 2
MIN_BLOCKED == 5
MAX_BLOCKED == 15

(* An absent optional number (phaseEndsAt?: number; no alarm set). *)
NoTime == -1
(* A market_bid whose amount field is absent: every comparison with it is false. *)
NaN == -999
(* attachment.playerId === null; winnerId absent *)
NoPlayer == 0

----------------------------------------------------------------------------
(* Bounds *)

MaxPlayers == 2
MaxSockets == 2
MaxRounds == 1
MaxBid == 2
(* a run handles at most MaxMoves player messages that change the stored state *)
MaxMoves == 3
MaxPathHexes == 3
(* MaxMoves for the runs that keep every message and reply on record *)
ObsMoves == 2
(* the players and the accepted messages of the runs that start in mid-game *)
TablePlayers == 3
TableMoves == 3
(* the accepted messages of the runs that start in buy_phase, and the buy_cell
   and buy_cell_cancel messages they keep on record *)
BuyMoves == 2
MaxAsks == 3
(* a path_phase at the table handles at most PathMoves player messages that
   change the stored state *)
PathMoves == 2
(* a game that starts in the path_phase of its first round handles at most
   RoundMoves player messages that change the stored state *)
RoundMoves == 2

----------------------------------------------------------------------------
(* Sequence helpers (Array.prototype) *)

Range(s) == {s[i] : i \in DOMAIN s}

RECURSIVE SeqSum(_)
SeqSum(s) == IF s = <<>> THEN 0 ELSE Head(s) + SeqSum(Tail(s))

(* Array.findIndex, 1-based; 0 when nothing matches *)
FindIndex(s, P(_)) ==
  IF \E i \in DOMAIN s : P(s[i])
    THEN CHOOSE i \in DOMAIN s : P(s[i]) /\ \A j \in 1..(i - 1) : ~P(s[j])
    ELSE 0

(* Array.splice(i, 1), 1-based *)
RemoveAt(s, i) == [j \in 1..(Len(s) - 1) |-> IF j < i THEN s[j] ELSE s[j + 1]]

(* Array.map *)
Map(s, F(_)) == [i \in DOMAIN s |-> F(s[i])]

(* The distinct values of a sequence, each at its first occurrence
   (the key order of a Map filled by get/set in one pass). *)
RECURSIVE Distinct(_)
Distinct(s) ==
  IF s = <<>> THEN <<>>
  ELSE LET front == Distinct(SubSeq(s, 1, Len(s) - 1))
           x == s[Len(s)]
       IN IF x \in Range(front) THEN front ELSE Append(front, x)

RECURSIVE Flatten(_)
Flatten(ss) == IF ss = <<>> THEN <<>> ELSE Head(ss) \o Flatten(Tail(ss))

Max(a, b) == IF a > b THEN a ELSE b
Min(a, b) == IF a < b THEN a ELSE b

(* a < b in JS, for numbers and the absent amount *)
JsLess(a, b) == a # NaN /\ b # NaN /\ a < b

----------------------------------------------------------------------------
(* Hex geometry: worker/hex.ts *)

DIRECTIONS == << <<1, 0>>, <<1, -1>>, <<0, -1>>, <<-1, 0>>, <<-1, 1>>, <<0, 1>> >>

axialNeighbors(a) == {<<a[1] + d[1], a[2] + d[2]>> : d \in Range(DIRECTIONS)}

axialEquals(a, b) == a[1] = b[1] /\ a[2] = b[2]

hexRegionCount(r) == 1 + 3 * r * (r + 1)

(* hexRegion(radius): q ascending, then r ascending *)
hexRegion(radius) ==
  Flatten([k \in 1..(2 * radius + 1) |->
    LET q == k - radius - 1
        r1 == Max(-radius, -q - radius)
        r2 == Min(radius, -q + radius)
    IN [j \in 1..(r2 - r1 + 1) |-> <<q, r1 + j - 1>>]])

----------------------------------------------------------------------------
(* Storage values *)

Phases == {"lobby", "round_start", "market_phase", "buy_phase", "auction",
           "path_phase", "round_end", "ended"}

TimedPhases == {"round_start", "market_phase", "buy_phase", "auction",
                "path_phase", "round_end"}

Roles == {"producer", "seller"}

emptyPendingActions ==
  [buy |-> <<>>, buyDone |-> {}, pathReady |-> {}, market |-> <<>>,
   marketSkip |-> {}, auctionBids |-> {}, conflicts |-> <<>>]

(* storage.get('config') === undefined: before initialize, after cleanup *)
NoConfig ==
  [roundCount |-> 0, phase |-> "none", roundIndex |-> 0, marketDice |-> <<>>,
   marketMinPrice |-> MARKET_MIN_PRICE, phaseEndsAt |-> NoTime]

NoRes == [phase |-> "none"]

(* storage.get('roomId') === undefined, and the id the Lobby gave the room *)
NoRoom == "none"
RoomId == "room"

NoTrace == [msg |-> [type |-> "none"], ws |-> 0, phase |-> "none", sent |-> <<>>]

PlayerIds(pl) == 1..Len(pl)


----------------------------------------------------------------------------
(* Math.random(): randomDice, randomDiceArray *)

StreamAt(r, k) == r.dice[((r.pos - 1 + k) % Len(r.dice)) + 1]

(* randomDiceArray(n): the next n faces of the stream *)
randomDiceArray(r, n) == [i \in 1..n |-> StreamAt(r, i - 1)]

Advance(r, n) == [r EXCEPT !.pos = ((r.pos - 1 + n) % Len(r.dice)) + 1]

(* generateGrid: the smallest hex region holding minCells + blockedCount cells;
   which cells are blocked and every cell's three values are the generator's
   draws for a region of that radius *)
generateGrid(r, minCells, blockedCount) ==
  LET radius == CHOOSE k \in DOMAIN r.board :
                  /\ hexRegionCount(k) >= minCells + blockedCount
                  /\ \A j \in 1..(k - 1) : hexRegionCount(j) < minCells + blockedCount
      coords == hexRegion(radius)
      draw == r.board[radius]
  IN [i \in DOMAIN coords |->
        [q |-> coords[i][1], r |-> coords[i][2], diceValue |-> draw.diceValues[i],
         producer |-> draw.producers[i], seller |-> draw.sellers[i],
         blocked |-> i \in draw.blocked, owners |-> <<>>]]

----------------------------------------------------------------------------
(* The room's state as one record, and the messages a handler sends *)

Cur ==
  [cfg |-> config, pl |-> players, gr |-> grid, pe |-> pending,
   sp |-> submittedPaths, win |-> winnerId, al |-> alarmAt, so |-> sockets,
   rid |-> roomId, lb |-> lobby,
   rnd |-> rng, out |-> <<>>, rs |-> NoRes, ph |-> roundPhases]

(* the phases of the round so far, once config is stored with the given phase *)
Entered(ph, phase) == IF phase = "round_start" THEN <<phase>> ELSE Append(ph, phase)

(* sendTo(ws, msg) *)
sendTo(st, ws, type) == [st EXCEPT !.out = Append(@, [to |-> ws, type |-> type])]

OpenSockets(so) == {w \in DOMAIN so : so[w].open}

(* An optional field of a message is the set of its values: empty when the
   field is undefined. *)

(* activeConflicts: the conflicts by id, with the cell or the die they are about *)
ActiveConflicts(st) ==
  IF st.cfg.phase = "auction"
    THEN [i \in DOMAIN st.pe.conflicts |->
            [conflictId |-> i,
             cellId |-> IF st.pe.conflicts[i].type = "cell"
                          THEN {st.pe.conflicts[i].ref} ELSE {},
             dieIndex |-> IF st.pe.conflicts[i].type = "market"
                            THEN {st.pe.conflicts[i].ref} ELSE {}]]
    ELSE <<>>

(* selectionStatus: who has acted in the current phase *)
SelectionStatus(st) ==
  [p \in 1..Len(st.pl) |->
     CASE st.cfg.phase = "buy_phase" -> p \in st.pe.buyDone
       [] st.cfg.phase = "market_phase" ->
            (\E i \in DOMAIN st.pe.market : st.pe.market[i].playerId = p)
              \/ p \in st.pe.marketSkip
       [] st.cfg.phase = "auction" -> \E e \in st.pe.auctionBids : e.playerId = p
       [] st.cfg.phase = "path_phase" -> p \in st.pe.pathReady
       [] OTHER -> FALSE]

(* the part of a state message that every connection receives *)
BaseState(st) ==
  [config |-> st.cfg, grid |-> st.gr, players |-> st.pl,
   winnerId |-> {st.win} \ {NoPlayer},
   activeConflicts |-> ActiveConflicts(st),
   selectionStatus |-> SelectionStatus(st),
   pendingBuys |-> st.pe.buy]

(* the state message of a room that shows every connection all pending market bids *)
StateFor_AllBids(st, ws) ==
  [base |-> BaseState(st),
   myMarketBid |-> {[dieIndex |-> e.dieIndex, amount |-> e.amount] : e \in Range(st.pe.market)},
   myAuctionBids |-> {}, mySubmittedPath |-> {}]

(* the state of the state message sent to websocket ws: the base state and the
   pending market bid, auction bids and submitted path of the player bound to ws *)
StateFor(st, ws) ==
  LET myPlayerId == st.so[ws].playerId
  IN [base |-> BaseState(st),
      myMarketBid |->
        {[dieIndex |-> e.dieIndex, amount |-> e.amount] :
           e \in {x \in Range(st.pe.market) : myPlayerId # NoPlayer /\ x.playerId = myPlayerId}},
      myAuctionBids |->
        {[conflictId |-> e.conflictId, amount |-> e.amount] :
           e \in {x \in st.pe.auctionBids : myPlayerId # NoPlayer /\ x.playerId = myPlayerId}},
      mySubmittedPath |->
        {[producerId |-> e.producerId, sellerId |-> e.sellerId, path |-> e.path,
          revenue |-> e.revenue] :
           e \in {x \in st.sp : myPlayerId # NoPlayer /\ x.playerId = myPlayerId}}]

RECURSIVE SendStateFrom(_, _)
SendStateFrom(st, w) ==
  IF w > Len(st.so) THEN st
  ELSE SendStateFrom(IF st.so[w].open THEN sendTo(st, w, "state") ELSE st, w + 1)

(* Lobby.setRoomPlayerCount: the room's entry holds the count, an entry being
   made when there is none *)
setRoomPlayerCount(lb, count) == [lb EXCEPT !.meta = {count}]

(* Lobby.deleteRoom *)
deleteRoom(lb, id) ==
  [lb EXCEPT !.rooms = SelectSeq(@, LAMBDA r : r # id), !.meta = {}]

(* Lobby.joinRoom: whether the Lobby finds an entry for the room *)
joinRoom(lb) == IF lb.meta = {} THEN "Room not found" ELSE "ok"

(* syncLobbyMeta: a call that throws is caught and ignored *)
syncLobbyMeta(st) ==
  IF st.rid = NoRoom \/ st.lb.down THEN st
  ELSE [st EXCEPT !.lb = setRoomPlayerCount(@, Len(st.pl))]

(* broadcastState: the player count to the Lobby, then a state message to every
   open websocket *)
broadcastState(st) == SendStateFrom(syncLobbyMeta(st), 1)

(* ctx.setAlarm(Date.now() + ms) *)
(* arming that leaves an alarm already set in place *)
setAlarm_KeepsEarlier(st, ms) == IF st.al = NoTime THEN [st EXCEPT !.al = ms] ELSE st

setAlarm(st, ms) == [st EXCEPT !.al = ms]

----------------------------------------------------------------------------
(* alarm(): round_start *)

(* the aging of a cell that lowers the producer value only *)
Aged_ProducerOnly(cell) ==
  IF cell.owners = <<>> THEN cell
  ELSE [cell EXCEPT !.producer = Max(1, cell.producer - 1)]

Aged(cell) ==
  IF cell.owners = <<>> THEN cell
  ELSE [cell EXCEPT !.producer = Max(1, cell.producer - 1),
                    !.seller = Max(1, cell.seller - 1)]

applyOwnershipAging(gr) == [c \in DOMAIN gr |-> Aged(gr[c])]

(* the revenue stored for a player, 0 when the player has no entry *)
StoredRevenue(sp, pid) ==
  IF \E e \in sp : e.playerId = pid
    THEN Max(0, (CHOOSE e \in sp : e.playerId = pid).revenue)
    ELSE 0

PayRound(pl, sp) ==
  [p \in DOMAIN pl |-> [pl[p] EXCEPT !.money = @ + 1 + StoredRevenue(sp, p)]]

AlarmRoundStart(st) ==
  LET n == Len(st.pl) - 1
      st1 == [st EXCEPT
                !.gr = applyOwnershipAging(st.gr),
                !.pl = PayRound(st.pl, st.sp),
                !.cfg = [st.cfg EXCEPT !.phase = "market_phase",
                                       !.marketDice = randomDiceArray(st.rnd, n),
                                       !.phaseEndsAt = MARKET_DURATION_MS],
                !.ph = Entered(@, "market_phase"),
                !.rnd = Advance(st.rnd, n)]
  IN broadcastState(setAlarm(st1, MARKET_DURATION_MS))

----------------------------------------------------------------------------
(* alarm(): market_phase *)

(* bids of at least the minimum price, in the order of pending.market *)
ValidBids(pe, minPrice) ==
  SelectSeq(pe.market, LAMBDA b : ~JsLess(b.amount, minPrice))

BidsOn(bids, d) == SelectSeq(bids, LAMBDA b : b.dieIndex = d)

RECURSIVE BestBid(_, _)
BestBid(bids, best) ==
  IF bids = <<>> THEN best
  ELSE BestBid(Tail(bids), IF JsLess(best, Head(bids).amount) THEN Head(bids).amount ELSE best)

MarketWinners(bids, best) ==
  Map(SelectSeq(bids, LAMBDA b : b.amount = best), LAMBDA b : b.playerId)

(* MarketAward handing the die over without taking the money *)
MarketAward_NoPayment(acc, d, bids) ==
  LET best == BestBid(bids, -1)
      winners == MarketWinners(bids, best)
  IN IF d < 0 \/ d >= Len(acc.md) THEN acc
     ELSE IF Len(winners) = 1
       THEN IF acc.pl[winners[1]].money >= best
              THEN [acc EXCEPT
                      !.pl[winners[1]].dice = Append(@, acc.md[d + 1]),
                      !.md[d + 1] = -1]
              ELSE acc
       ELSE [acc EXCEPT !.conflicts =
               Append(@, [type |-> "market", ref |-> d, playerIds |-> winners])]

(* MarketAward recording every bidder of the die as a contender *)
MarketAward_AllBidders(acc, d, bids) ==
  LET best == BestBid(bids, -1)
      winners == MarketWinners(bids, best)
  IN IF d < 0 \/ d >= Len(acc.md) THEN acc
     ELSE IF Len(winners) = 1
       THEN IF acc.pl[winners[1]].money >= best
              THEN [acc EXCEPT
                      !.pl[winners[1]].money = @ - best,
                      !.pl[winners[1]].dice = Append(@, acc.md[d + 1]),
                      !.md[d + 1] = -1]
              ELSE acc
       ELSE [acc EXCEPT !.conflicts =
               Append(@, [type |-> "market", ref |-> d,
                          playerIds |-> Map(bids, LAMBDA b : b.playerId)])]

(* one entry of bidsByDieIndex: award the die or record a conflict *)
MarketAward(acc, d, bids) ==
  LET best == BestBid(bids, -1)
      winners == MarketWinners(bids, best)
  IN IF d < 0 \/ d >= Len(acc.md) THEN acc
     ELSE IF Len(winners) = 1
       THEN IF acc.pl[winners[1]].money >= best
              THEN [acc EXCEPT
                      !.pl[winners[1]].money = @ - best,
                      !.pl[winners[1]].dice = Append(@, acc.md[d + 1]),
                      !.md[d + 1] = -1]
              ELSE acc
       ELSE [acc EXCEPT !.conflicts =
               Append(@, [type |-> "market", ref |-> d, playerIds |-> winners])]

(* the loop over bidsByDieIndex: the state before the first entry and after each *)
RECURSIVE MarketFold(_, _, _)
MarketFold(acc, dies, bids) ==
  IF dies = <<>> THEN <<acc>>
  ELSE <<acc>> \o
       MarketFold(MarketAward(acc, Head(dies), BidsOn(bids, Head(dies))), Tail(dies), bids)

(* what the loop leaves: the players, the pool and the conflicts after the last entry *)
MarketResult(dies, steps) ==
  [pl |-> steps[Len(steps)].pl, md |-> steps[Len(steps)].md,
   conflicts |-> steps[Len(steps)].conflicts, keys |-> dies, steps |-> steps]

(* the loop over the die indexes dies of bidsByDieIndex, in insertion order *)
MarketResolveDies(cfg, pl, bids, dies) ==
  MarketResult(dies,
    MarketFold([pl |-> pl, md |-> cfg.marketDice, conflicts |-> <<>>], dies, bids))

MarketResolveBids(cfg, pl, bids) ==
  MarketResolveDies(cfg, pl, bids, Distinct(Map(bids, LAMBDA b : b.dieIndex)))

MarketResolve(cfg, pl, pe) == MarketResolveBids(cfg, pl, ValidBids(pe, cfg.marketMinPrice))

Unsold(md) == SelectSeq(md, LAMBDA v : v # -1)

(* the market_phase branch once the resolution r is computed *)
AlarmMarketWith(st, r) ==
  LET toAuction == Len(r.conflicts) > 0
      pe1 == IF toAuction
               THEN [st.pe EXCEPT !.conflicts = r.conflicts, !.auctionBids = {}]
               ELSE emptyPendingActions
      cfg1 == IF toAuction
                THEN [st.cfg EXCEPT !.phase = "auction", !.marketDice = r.md,
                                    !.phaseEndsAt = AUCTION_DURATION_MS]
                ELSE [st.cfg EXCEPT !.phase = "buy_phase", !.marketDice = Unsold(r.md),
                                    !.phaseEndsAt = BUY_DURATION_MS]
      st1 == [st EXCEPT !.pl = r.pl, !.pe = pe1, !.cfg = cfg1,
                !.ph = Entered(@, cfg1.phase),
                !.rs = [phase |-> "market_phase",
                        pl |-> st.pl, pe |-> st.pe, md |-> st.cfg.marketDice, gr |-> st.gr,
                        keys |-> r.keys, steps |-> r.steps,
                        pl2 |-> r.pl, md2 |-> cfg1.marketDice, gr2 |-> st.gr,
                        conflicts |-> r.conflicts]]
  IN broadcastState(setAlarm(st1, cfg1.phaseEndsAt))

AlarmMarket(st) == AlarmMarketWith(st, MarketResolve(st.cfg, st.pl, st.pe))


----------------------------------------------------------------------------
(* alarm(): buy_phase *)

(* the acts of one player, a cell's later duplicates skipped (seen) *)
RECURSIVE UnseenActs(_, _)
UnseenActs(acts, seen) ==
  IF acts = <<>> THEN <<>>
  ELSE IF Head(acts).cellId \in seen THEN UnseenActs(Tail(acts), seen)
  ELSE <<Head(acts)>> \o UnseenActs(Tail(acts), seen \cup {Head(acts).cellId})

(* every (player, cell, role) of pending.buy in iteration order *)
BuyClaims(pe) ==
  Flatten(Map(pe.buy, LAMBDA e :
    Map(UnseenActs(e.acts, {}), LAMBDA a :
      [playerId |-> e.playerId, cellId |-> a.cellId, role |-> a.role])))

(* byCell.get(cellId) *)
Claimants(claims, cellId) ==
  Distinct(Map(SelectSeq(claims, LAMBDA c : c.cellId = cellId), LAMBDA c : c.playerId))

(* roleByPlayerCell.get(`${pid}:${cellId}`) *)
RoleOf(claims, pid, cellId) ==
  claims[FindIndex(claims, LAMBDA c : c.playerId = pid /\ c.cellId = cellId)].role

HasDie(player, v) == v \in Range(player.dice)

(* toApply: the sole claimant of a cell, if the claim is valid *)
ToApplyFor(claims, pl, gr, cellId) ==
  LET pid == Claimants(claims, cellId)[1]
  IN IF /\ cellId \in DOMAIN gr
        /\ ~gr[cellId].blocked
        /\ pid \in DOMAIN pl
        /\ HasDie(pl[pid], gr[cellId].diceValue)
       THEN <<[playerId |-> pid, cellId |-> cellId, role |-> RoleOf(claims, pid, cellId)]>>
       ELSE <<>>

RECURSIVE SortClaims(_, _, _, _, _)
SortClaims(cells, claims, pl, gr, acc) ==
  IF cells = <<>> THEN acc
  ELSE LET cellId == Head(cells)
           who == Claimants(claims, cellId)
       IN SortClaims(Tail(cells), claims, pl, gr,
            IF Len(who) = 1
              THEN [acc EXCEPT !.toApply = @ \o ToApplyFor(claims, pl, gr, cellId)]
              ELSE [acc EXCEPT !.conflicts =
                      Append(@, [type |-> "cell", ref |-> cellId, playerIds |-> who])])

(* playerDicePool: how many dice of each value a player holds *)
DiceCount(dice, v) == Cardinality({i \in DOMAIN dice : dice[i] = v})

(* filteredToApply: each act takes one die of the cell's value out of its
   player's pool; an act finding none left is dropped.  used counts, per
   (player, value), the dice taken so far. *)
RECURSIVE FilterByPool(_, _, _, _)
FilterByPool(acts, pl, gr, used) ==
  IF acts = <<>> THEN <<>>
  ELSE LET act == Head(acts)
           v == gr[act.cellId].diceValue
           key == <<act.playerId, v>>
           taken == Cardinality({i \in DOMAIN used : used[i] = key})
           left == DiceCount(pl[act.playerId].dice, v) - taken
       IN IF left <= 0 THEN FilterByPool(Tail(acts), pl, gr, used)
          ELSE <<act>> \o FilterByPool(Tail(acts), pl, gr, Append(used, key))

(* CommitBuy leaving the die in the hand *)
CommitBuy_KeepsDie(acc, act) ==
  [acc EXCEPT
     !.gr[act.cellId].owners = Append(@, [playerId |-> act.playerId, role |-> act.role])]

(* CommitBuy with the buyer taking the place of the cell's owners *)
CommitBuy_Replaces(acc, act) ==
  LET v == acc.gr[act.cellId].diceValue
      dieIdx == FindIndex(acc.pl[act.playerId].dice, LAMBDA d : d = v)
  IN [acc EXCEPT
        !.gr[act.cellId].owners = <<[playerId |-> act.playerId, role |-> act.role]>>,
        !.pl[act.playerId].dice = IF dieIdx > 0 THEN RemoveAt(@, dieIdx) ELSE @]

(* one committed purchase: push the owner, splice the first matching die *)
CommitBuy(acc, act) ==
  LET v == acc.gr[act.cellId].diceValue
      dieIdx == FindIndex(acc.pl[act.playerId].dice, LAMBDA d : d = v)
  IN [acc EXCEPT
        !.gr[act.cellId].owners = Append(@, [playerId |-> act.playerId, role |-> act.role]),
        !.pl[act.playerId].dice = IF dieIdx > 0 THEN RemoveAt(@, dieIdx) ELSE @]

(* the loop over filteredToApply: the state before the first act and after each *)
RECURSIVE CommitAll(_, _)
CommitAll(acc, acts) ==
  IF acts = <<>> THEN <<acc>>
  ELSE <<acc>> \o CommitAll(CommitBuy(acc, Head(acts)), Tail(acts))

(* what the commit loop leaves, with the conflicts and the acts it was given *)
BuyResult(sorted, filtered, steps) ==
  [pl |-> steps[Len(steps)].pl, gr |-> steps[Len(steps)].gr, conflicts |-> sorted.conflicts,
   toApply |-> sorted.toApply, keys |-> filtered, steps |-> steps]

BuyResolveFiltered(pl, gr, sorted, filtered) ==
  BuyResult(sorted, filtered, CommitAll([pl |-> pl, gr |-> gr], filtered))

BuyResolveSorted(pl, gr, sorted) ==
  BuyResolveFiltered(pl, gr, sorted, FilterByPool(sorted.toApply, pl, gr, <<>>))

BuyResolveClaims(pl, gr, claims) ==
  BuyResolveSorted(pl, gr,
    SortClaims(Distinct(Map(claims, LAMBDA c : c.cellId)), claims, pl, gr,
               [toApply |-> <<>>, conflicts |-> <<>>]))

BuyResolve(pl, gr, pe) == BuyResolveClaims(pl, gr, BuyClaims(pe))

Owns(gr, pid, role) ==
  \E c \in DOMAIN gr : \E i \in DOMAIN gr[c].owners :
    gr[c].owners[i].playerId = pid /\ gr[c].owners[i].role = role

(* computeAutoPathReady *)
computeAutoPathReady(pl, gr) ==
  {p \in DOMAIN pl : ~Owns(gr, p, "producer") \/ ~Owns(gr, p, "seller")}

----------------------------------------------------------------------------
(* alarm(): path_phase *)

(* every player is dealt randomDiceArray(3), in player order *)
RECURSIVE Redeal_Everyone(_, _, _)
Redeal_Everyone(pl, r, p) ==
  IF p > Len(pl) THEN [pl |-> pl, rnd |-> r]
  ELSE Redeal_Everyone([pl EXCEPT ![p].dice = randomDiceArray(r, HAND_SIZE)],
                       Advance(r, HAND_SIZE), p + 1)

(* every player whose hand is empty is dealt randomDiceArray(3), in player order *)
RECURSIVE Redeal(_, _, _)
Redeal(pl, r, p) ==
  IF p > Len(pl) THEN [pl |-> pl, rnd |-> r]
  ELSE IF Len(pl[p].dice) = 0
    THEN Redeal([pl EXCEPT ![p].dice = randomDiceArray(r, HAND_SIZE)], Advance(r, HAND_SIZE), p + 1)
    ELSE Redeal(pl, r, p + 1)

(* AlarmPath forgetting to arm the round_end timer *)
AlarmPath_NoTimer(st) ==
  LET d == Redeal(st.pl, st.rnd, 1)
      st1 == [st EXCEPT !.pl = d.pl, !.rnd = d.rnd,
                !.cfg = [st.cfg EXCEPT !.phase = "round_end",
                                       !.phaseEndsAt = ROUND_END_DELAY_MS],
                !.ph = Entered(@, "round_end")]
  IN broadcastState(st1)

AlarmPath(st) ==
  LET d == Redeal(st.pl, st.rnd, 1)
      st1 == [st EXCEPT !.pl = d.pl, !.rnd = d.rnd,
                !.cfg = [st.cfg EXCEPT !.phase = "round_end",
                                       !.phaseEndsAt = ROUND_END_DELAY_MS],
                !.ph = Entered(@, "round_end")]
  IN broadcastState(setAlarm(st1, ROUND_END_DELAY_MS))

(* entering path_phase (from buy_phase or auction): the auto-ready flags, and
   the path_phase resolution at once when they cover every player *)
EnterPath(st, md) ==
  LET ready == computeAutoPathReady(st.pl, st.gr)
      st1 == [st EXCEPT
                !.pe = [emptyPendingActions EXCEPT !.pathReady = ready],
                !.cfg = [st.cfg EXCEPT !.phase = "path_phase", !.marketDice = md,
                                       !.phaseEndsAt = PATH_DURATION_MS],
                !.ph = Entered(@, "path_phase")]
      st2 == IF Len(st.pl) > 0 /\ Cardinality(ready) >= Len(st.pl)
               THEN AlarmPath(st1)
               ELSE setAlarm(st1, PATH_DURATION_MS)
  IN broadcastState(st2)

(* the buy_phase branch once the resolution r is computed *)
AlarmBuyWith(st, r) ==
  LET rs == [phase |-> "buy_phase",
             pl |-> st.pl, pe |-> st.pe, md |-> st.cfg.marketDice, gr |-> st.gr,
             keys |-> r.keys, steps |-> r.steps,
             pl2 |-> r.pl, md2 |-> st.cfg.marketDice, gr2 |-> r.gr,
             conflicts |-> r.conflicts]
      st1 == [st EXCEPT !.pl = r.pl, !.gr = r.gr, !.rs = rs]
  IN IF Len(r.conflicts) > 0
       THEN broadcastState(setAlarm(
              [st1 EXCEPT
                 !.pe = [st.pe EXCEPT !.conflicts = r.conflicts, !.auctionBids = {}],
                 !.cfg = [st.cfg EXCEPT !.phase = "auction",
                                        !.phaseEndsAt = AUCTION_DURATION_MS],
                 !.ph = Entered(@, "auction")],
              AUCTION_DURATION_MS))
       ELSE EnterPath(st1, st.cfg.marketDice)

AlarmBuy(st) == AlarmBuyWith(st, BuyResolve(st.pl, st.gr, st.pe))


----------------------------------------------------------------------------
(* alarm(): auction *)

(* bids[pid] ?? 0, bids being pending.auctionBids[conflictId] ?? {} *)
BidOf(pe, cid, pid) ==
  IF \E e \in pe.auctionBids : e.conflictId = cid /\ e.playerId = pid
    THEN (CHOOSE e \in pe.auctionBids : e.conflictId = cid /\ e.playerId = pid).amount
    ELSE 0

RECURSIVE HighestBid(_, _, _, _)
HighestBid(pe, cid, pids, best) ==
  IF pids = <<>> THEN best
  ELSE LET b == BidOf(pe, cid, Head(pids))
       IN HighestBid(pe, cid, Tail(pids), IF JsLess(best, b) THEN b ELSE best)

(* bestPlayer taking the last contender at the highest bid *)
bestPlayer_Last(pe, cid, pids, best) ==
  LET at == {i \in DOMAIN pids : BidOf(pe, cid, pids[i]) = best}
  IN IF at # {} THEN pids[CHOOSE i \in at : \A j \in at : j <= i]
     ELSE IF Len(pids) > 0 THEN pids[1] ELSE NoPlayer

(* c.playerIds.find(bid === bestBid) ?? c.playerIds[0]; NoPlayer when there is none *)
bestPlayer(pe, cid, pids, best) ==
  LET i == FindIndex(pids, LAMBDA pid : BidOf(pe, cid, pid) = best)
  IN IF i > 0 THEN pids[i] ELSE IF Len(pids) > 0 THEN pids[1] ELSE NoPlayer

AuctionMarket(acc, pe, cid, c, best) ==
  LET w == bestPlayer(pe, cid, c.playerIds, best)
  IN IF /\ c.ref >= 0 /\ c.ref < Len(acc.md)
        /\ acc.md[c.ref + 1] # -1
        /\ w \in DOMAIN acc.pl
        /\ acc.pl[w].money >= best
       THEN [acc EXCEPT !.md[c.ref + 1] = -1,
                        !.pl[w].dice = Append(@, acc.md[c.ref + 1]),
                        !.pl[w].money = @ - best]
       ELSE acc

(* (pending.buy[pid] ?? []).find(a => a.cellId === cellId)?.role; "" when absent *)
QueuedRole(pe, pid, cellId) ==
  LET e == FindIndex(pe.buy, LAMBDA x : x.playerId = pid)
      a == IF e = 0 THEN 0 ELSE FindIndex(pe.buy[e].acts, LAMBDA x : x.cellId = cellId)
  IN IF a = 0 THEN "" ELSE pe.buy[e].acts[a].role

(* AuctionCellWinner charging a top bidder who cannot pay the bid *)
AuctionCellWinner_Unchecked(acc, pe, cellId, pid, best) ==
  LET role == QueuedRole(pe, pid, cellId)
      dieIdx == IF pid \in DOMAIN acc.pl
                  THEN FindIndex(acc.pl[pid].dice, LAMBDA d : d = acc.gr[cellId].diceValue)
                  ELSE 0
  IN IF pid \notin DOMAIN acc.pl \/ role = "" THEN acc
     ELSE IF dieIdx = 0 THEN acc
     ELSE [acc EXCEPT
             !.gr[cellId].owners = Append(@, [playerId |-> pid, role |-> role]),
             !.pl[pid].money = @ - best,
             !.pl[pid].dice = RemoveAt(@, dieIdx)]

AuctionCellWinner(acc, pe, cellId, pid, best) ==
  LET role == QueuedRole(pe, pid, cellId)
      dieIdx == IF pid \in DOMAIN acc.pl
                  THEN FindIndex(acc.pl[pid].dice, LAMBDA d : d = acc.gr[cellId].diceValue)
                  ELSE 0
  IN IF pid \notin DOMAIN acc.pl \/ acc.pl[pid].money < best \/ role = "" THEN acc
     ELSE IF dieIdx = 0 THEN acc
     ELSE [acc EXCEPT
             !.gr[cellId].owners = Append(@, [playerId |-> pid, role |-> role]),
             !.pl[pid].money = @ - best,
             !.pl[pid].dice = RemoveAt(@, dieIdx)]

RECURSIVE AuctionCellWinners(_, _, _, _, _)
AuctionCellWinners(acc, pe, cellId, winners, best) ==
  IF winners = <<>> THEN acc
  ELSE AuctionCellWinners(AuctionCellWinner(acc, pe, cellId, Head(winners), best),
                          pe, cellId, Tail(winners), best)

(* AuctionCell giving the cell to the first top bidder only *)
AuctionCell_FirstOnly(acc, pe, cid, c, best) ==
  IF c.ref \notin DOMAIN acc.gr THEN acc
  ELSE LET winners == SelectSeq(c.playerIds, LAMBDA pid : BidOf(pe, cid, pid) = best)
       IN AuctionCellWinners(acc, pe, c.ref, SubSeq(winners, 1, 1), best)

AuctionCell(acc, pe, cid, c, best) ==
  IF c.ref \notin DOMAIN acc.gr THEN acc
  ELSE AuctionCellWinners(acc, pe, c.ref,
         SelectSeq(c.playerIds, LAMBDA pid : BidOf(pe, cid, pid) = best), best)

AuctionConflict(acc, pe, cid) ==
  LET c == pe.conflicts[cid]
      best == HighestBid(pe, cid, c.playerIds, 0)
  IN IF c.type = "market" THEN AuctionMarket(acc, pe, cid, c, best)
     ELSE AuctionCell(acc, pe, cid, c, best)

(* the loop over pending.conflicts: the state before the first conflict and after each *)
RECURSIVE AuctionFold(_, _, _)
AuctionFold(acc, pe, cid) ==
  IF cid > Len(pe.conflicts) THEN <<acc>>
  ELSE <<acc>> \o AuctionFold(AuctionConflict(acc, pe, cid), pe, cid + 1)

(* what the loop leaves: the players, the grid and the pool after the last conflict *)
AuctionResult(steps) ==
  [pl |-> steps[Len(steps)].pl, gr |-> steps[Len(steps)].gr,
   md |-> steps[Len(steps)].md, steps |-> steps]

AuctionResolve(cfg, pl, gr, pe) ==
  AuctionResult(AuctionFold([pl |-> pl, gr |-> gr, md |-> cfg.marketDice], pe, 1))

(* the auction branch once the resolution r is computed *)
AlarmAuctionWith(st, r) ==
  LET rs == [phase |-> "auction",
             pl |-> st.pl, pe |-> st.pe, md |-> st.cfg.marketDice, gr |-> st.gr,
             keys |-> [i \in DOMAIN st.pe.conflicts |-> i], steps |-> r.steps,
             pl2 |-> r.pl, md2 |-> Unsold(r.md), gr2 |-> r.gr,
             conflicts |-> st.pe.conflicts]
  IN EnterPath([st EXCEPT !.pl = r.pl, !.gr = r.gr, !.rs = rs], Unsold(r.md))

AlarmAuction(st) == AlarmAuctionWith(st, AuctionResolve(st.cfg, st.pl, st.gr, st.pe))

----------------------------------------------------------------------------
(* alarm(): round_end, ended *)

myCells(gr, pid) ==
  Cardinality({c \in DOMAIN gr : \E i \in DOMAIN gr[c].owners : gr[c].owners[i].playerId = pid})

(* the first player with the most money, whatever cells the players own *)
RECURSIVE BestPlayer_MoneyOnly(_, _, _, _)
BestPlayer_MoneyOnly(pl, gr, p, best) ==
  IF p > Len(pl) THEN best
  ELSE BestPlayer_MoneyOnly(pl, gr, p + 1, IF pl[p].money > pl[best].money THEN p ELSE best)

RECURSIVE BestPlayer(_, _, _, _)
BestPlayer(pl, gr, p, best) ==
  IF p > Len(pl) THEN best
  ELSE BestPlayer(pl, gr, p + 1,
         IF pl[p].money > pl[best].money THEN p
         ELSE IF pl[p].money = pl[best].money /\ myCells(gr, p) > myCells(gr, best) THEN p
         ELSE best)

(* the round_end branch ending the game one round late *)
AlarmRoundEnd_OneMore(st) ==
  LET roundIndex == st.cfg.roundIndex + 1
      n == Len(st.pl) - 1
  IN IF roundIndex > st.cfg.roundCount
       THEN setAlarm(broadcastState(
              [st EXCEPT !.cfg = [st.cfg EXCEPT !.phase = "ended", !.roundIndex = roundIndex,
                                                !.phaseEndsAt = ROOM_CLEANUP_DELAY_MS],
                         !.ph = Entered(@, "ended"),
                         !.win = BestPlayer(st.pl, st.gr, 1, 1)]),
              ROOM_CLEANUP_DELAY_MS)
       ELSE broadcastState(setAlarm(
              [st EXCEPT !.cfg = [st.cfg EXCEPT !.phase = "round_start",
                                                !.roundIndex = roundIndex,
                                                !.marketDice = randomDiceArray(st.rnd, n),
                                                !.phaseEndsAt = ROUND_START_DELAY_MS],
                         !.ph = Entered(@, "round_start"),
                         !.rnd = Advance(st.rnd, n)],
              ROUND_START_DELAY_MS))

AlarmRoundEnd(st) ==
  LET roundIndex == st.cfg.roundIndex + 1
      n == Len(st.pl) - 1
  IN IF roundIndex >= st.cfg.roundCount
       THEN setAlarm(broadcastState(
              [st EXCEPT !.cfg = [st.cfg EXCEPT !.phase = "ended", !.roundIndex = roundIndex,
                                                !.phaseEndsAt = ROOM_CLEANUP_DELAY_MS],
                         !.ph = Entered(@, "ended"),
                         !.win = BestPlayer(st.pl, st.gr, 1, 1)]),
              ROOM_CLEANUP_DELAY_MS)
       ELSE broadcastState(setAlarm(
              [st EXCEPT !.cfg = [st.cfg EXCEPT !.phase = "round_start",
                                                !.roundIndex = roundIndex,
                                                !.marketDice = randomDiceArray(st.rnd, n),
                                                !.phaseEndsAt = ROUND_START_DELAY_MS],
                         !.ph = Entered(@, "round_start"),
                         !.rnd = Advance(st.rnd, n)],
              ROUND_START_DELAY_MS))

(* cleanupRoom: every storage key deleted, every websocket closed *)
(* cleanupRoom that keeps the players *)
cleanupRoom_KeepsPlayers(st) ==
  [st EXCEPT !.cfg = NoConfig, !.gr = <<>>, !.pe = emptyPendingActions,
             !.sp = {}, !.win = NoPlayer, !.ph = <<>>,
             !.lb = IF st.rid = NoRoom THEN @ ELSE deleteRoom(@, st.rid),
             !.so = [w \in DOMAIN st.so |-> [st.so[w] EXCEPT !.open = FALSE]]]

(* cleanupRoom: the stored state is deleted, the room is taken off the Lobby's
   list and the websockets are closed; when the call to the Lobby throws, the
   catch around the whole ends the cleanup there *)
cleanupRoom(st) ==
  LET st1 == [st EXCEPT !.cfg = NoConfig, !.pl = <<>>, !.gr = <<>>,
                        !.pe = emptyPendingActions, !.sp = {}, !.win = NoPlayer,
                        !.ph = <<>>]
  IN IF st.rid # NoRoom /\ st.lb.down THEN st1
     ELSE [st1 EXCEPT
             !.lb = IF st.rid = NoRoom THEN @ ELSE deleteRoom(@, st.rid),
             !.so = [w \in DOMAIN st.so |-> [st.so[w] EXCEPT !.open = FALSE]]]

(* alarm() *)
alarm(st) ==
  CASE st.cfg.phase = "round_start" -> AlarmRoundStart(st)
    [] st.cfg.phase = "market_phase" -> AlarmMarket(st)
    [] st.cfg.phase = "buy_phase" -> AlarmBuy(st)
    [] st.cfg.phase = "auction" -> AlarmAuction(st)
    [] st.cfg.phase = "path_phase" -> AlarmPath(st)
    [] st.cfg.phase = "round_end" -> AlarmRoundEnd(st)
    [] st.cfg.phase = "ended" /\ st.cfg.phaseEndsAt = 0 -> cleanupRoom(st)
    [] OTHER -> st


----------------------------------------------------------------------------
(* JS objects keyed by playerId, in key insertion order *)

HasKey(m, pid) == \E i \in DOMAIN m : m[i].playerId = pid

(* m[pid] = entry: in place when the key exists, appended otherwise *)
MapSet(m, entry) ==
  LET i == FindIndex(m, LAMBDA e : e.playerId = entry.playerId)
  IN IF i > 0 THEN [m EXCEPT ![i] = entry] ELSE Append(m, entry)

(* delete m[pid] *)
MapDelete(m, pid) == SelectSeq(m, LAMBDA e : e.playerId # pid)

(* pending.buy[pid] ?? [] *)
QueuedActs(pe, pid) ==
  LET i == FindIndex(pe.buy, LAMBDA e : e.playerId = pid)
  IN IF i > 0 THEN pe.buy[i].acts ELSE <<>>

----------------------------------------------------------------------------
(* Message handlers.  ws is the websocket the message arrived on. *)

Attached(st, ws) == st.so[ws].playerId

NotJoined(st, ws) == broadcastState(sendTo(st, ws, "error"))

(* handleJoin without its phase check *)
handleJoin_AnyPhase(st, ws) ==
  LET playerId == Len(st.pl) + 1
  IN broadcastState(sendTo(
       [st EXCEPT !.pl = Append(@, [money |-> 0, dice |-> <<>>]),
                  !.so[ws].playerId = playerId],
       ws, "joined"))

handleJoin(st, ws) ==
  IF st.cfg.phase # "lobby" THEN st
  ELSE LET playerId == Len(st.pl) + 1
       IN broadcastState(sendTo(
            [st EXCEPT !.pl = Append(@, [money |-> 0, dice |-> <<>>]),
                       !.so[ws].playerId = playerId],
            ws, "joined"))

RECURSIVE Deal(_, _, _)
Deal(pl, r, p) ==
  IF p > Len(pl) THEN [pl |-> pl, rnd |-> r]
  ELSE Deal([pl EXCEPT ![p] = [money |-> STARTING_MONEY, dice |-> randomDiceArray(r, HAND_SIZE)]],
            Advance(r, HAND_SIZE), p + 1)

(* rejoin that binds the websocket and reports success whatever id is named *)
handleRejoin_AnyId(st, ws, playerId) ==
  broadcastState(sendTo([st EXCEPT !.so[ws].playerId = playerId], ws, "joined"))

(* webSocketMessage, rejoin: a known playerId is attached to the websocket; an
   unknown one joins as a new player in the lobby and is refused elsewhere *)
handleRejoin(st, ws, playerId) ==
  IF playerId \in PlayerIds(st.pl)
    THEN broadcastState(sendTo([st EXCEPT !.so[ws].playerId = playerId], ws, "joined"))
  ELSE IF st.cfg.phase = "lobby" THEN handleJoin(st, ws)
  ELSE broadcastState(sendTo(st, ws, "error"))

(* handleStartGame starting the game for a single player *)
handleStartGame_Alone(st, ws) ==
  IF st.cfg.phase # "lobby" \/ Len(st.pl) < 1 THEN sendTo(st, ws, "error")
  ELSE LET minCells == Len(st.pl) * st.cfg.roundCount
           blockedCount == Min(MAX_BLOCKED, Max(MIN_BLOCKED, minCells \div 10))
           n == Len(st.pl) - 1
           d == Deal(st.pl, Advance(st.rnd, n), 1)
       IN broadcastState(setAlarm(
            [st EXCEPT !.cfg = [st.cfg EXCEPT !.phase = "round_start", !.roundIndex = 0,
                                              !.marketDice = randomDiceArray(st.rnd, n),
                                              !.marketMinPrice = MARKET_MIN_PRICE,
                                              !.phaseEndsAt = ROUND_START_DELAY_MS],
                       !.ph = Entered(@, "round_start"),
                       !.pl = d.pl, !.rnd = d.rnd,
                       !.gr = generateGrid(st.rnd, minCells, blockedCount),
                       !.pe = emptyPendingActions,
                       !.sp = {}],
            ROUND_START_DELAY_MS))

handleStartGame(st, ws) ==
  IF st.cfg.phase # "lobby" \/ Len(st.pl) < MIN_PLAYERS THEN sendTo(st, ws, "error")
  ELSE LET minCells == Len(st.pl) * st.cfg.roundCount
           blockedCount == Min(MAX_BLOCKED, Max(MIN_BLOCKED, minCells \div 10))
           n == Len(st.pl) - 1
           marketDice == randomDiceArray(st.rnd, n)
           d == Deal(st.pl, Advance(st.rnd, n), 1)
       IN broadcastState(setAlarm(
            [st EXCEPT !.cfg = [st.cfg EXCEPT !.phase = "round_start", !.roundIndex = 0,
                                              !.marketDice = marketDice,
                                              !.marketMinPrice = MARKET_MIN_PRICE,
                                              !.phaseEndsAt = ROUND_START_DELAY_MS],
                       !.ph = Entered(@, "round_start"),
                       !.pl = d.pl, !.rnd = d.rnd,
                       !.gr = generateGrid(st.rnd, minCells, blockedCount),
                       !.pe = emptyPendingActions,
                       !.sp = {}],
            ROUND_START_DELAY_MS))

maybeAdvanceTimedPhase(st) ==
  IF st.cfg.phase \in TimedPhases /\ st.cfg.phaseEndsAt # NoTime /\ st.cfg.phaseEndsAt = 0
    THEN alarm(st)
    ELSE st

handleTick(st) == broadcastState(maybeAdvanceTimedPhase(st))

marketReady(st) ==
  Len(st.pl) > 0 /\ Len(st.pe.market) + Cardinality(st.pe.marketSkip) >= Len(st.pl)

(* handleMarketBid without its phase check *)
handleMarketBid_AnyPhase(st, ws, dieIndex, amount) ==
  LET playerId == Attached(st, ws)
      st1 == [st EXCEPT
                !.pe.market = MapSet(@, [playerId |-> playerId, dieIndex |-> dieIndex,
                                         amount |-> amount]),
                !.pe.marketSkip = @ \ {playerId}]
  IN IF playerId = NoPlayer THEN NotJoined(st, ws)
     ELSE IF dieIndex < 0 \/ dieIndex >= Len(st.cfg.marketDice) THEN st
     ELSE IF JsLess(amount, st.cfg.marketMinPrice) THEN st
     ELSE IF marketReady(st1) THEN alarm(st1)
     ELSE broadcastState(st1)

handleMarketBid(st, ws, dieIndex, amount) ==
  LET playerId == Attached(st, ws)
      st1 == [st EXCEPT
                !.pe.market = MapSet(@, [playerId |-> playerId, dieIndex |-> dieIndex,
                                         amount |-> amount]),
                !.pe.marketSkip = @ \ {playerId}]
  IN IF playerId = NoPlayer THEN NotJoined(st, ws)
     ELSE IF st.cfg.phase # "market_phase" THEN broadcastState(st)
     ELSE IF dieIndex < 0 \/ dieIndex >= Len(st.cfg.marketDice) THEN st
     ELSE IF JsLess(amount, st.cfg.marketMinPrice) THEN st
     ELSE IF marketReady(st1) THEN alarm(st1)
     ELSE broadcastState(st1)

handleMarketSkip(st, ws) ==
  LET playerId == Attached(st, ws)
      st1 == [st EXCEPT !.pe.market = MapDelete(@, playerId),
                        !.pe.marketSkip = @ \cup {playerId}]
  IN IF playerId = NoPlayer THEN NotJoined(st, ws)
     ELSE IF st.cfg.phase # "market_phase" THEN broadcastState(st)
     ELSE IF marketReady(st1) THEN alarm(st1)
     ELSE broadcastState(st1)

(* handleMarketRecycle that also takes back the sender's bid *)
handleMarketRecycle_DropsBid(st, ws, dieIndex) ==
  LET playerId == Attached(st, ws)
  IN IF playerId = NoPlayer THEN st
     ELSE IF st.cfg.phase # "market_phase" THEN st
     ELSE IF playerId \notin DOMAIN st.pl THEN st
     ELSE IF dieIndex < 0 \/ dieIndex >= Len(st.pl[playerId].dice) THEN sendTo(st, ws, "error")
     ELSE broadcastState([st EXCEPT !.pl[playerId].dice = RemoveAt(@, dieIndex + 1),
                                    !.pl[playerId].money = @ + RECYCLE_PAYMENT,
                                    !.pe.market = MapDelete(@, playerId)])

handleMarketRecycle(st, ws, dieIndex) ==
  LET playerId == Attached(st, ws)
  IN IF playerId = NoPlayer THEN st
     ELSE IF st.cfg.phase # "market_phase" THEN st
     ELSE IF playerId \notin DOMAIN st.pl THEN st
     ELSE IF dieIndex < 0 \/ dieIndex >= Len(st.pl[playerId].dice) THEN sendTo(st, ws, "error")
     ELSE broadcastState([st EXCEPT !.pl[playerId].dice = RemoveAt(@, dieIndex + 1),
                                    !.pl[playerId].money = @ + RECYCLE_PAYMENT])

(* nextQueued: the candidate queue filtered through the sender's dice pool *)
RECURSIVE FilterQueue(_, _, _, _)
FilterQueue(acts, dice, gr, used) ==
  IF acts = <<>> THEN <<>>
  ELSE LET a == Head(acts)
       IN IF a.cellId \notin DOMAIN gr \/ gr[a.cellId].blocked
            THEN FilterQueue(Tail(acts), dice, gr, used)
          ELSE LET v == gr[a.cellId].diceValue
                   left == DiceCount(dice, v) - Cardinality({i \in DOMAIN used : used[i] = v})
               IN IF left <= 0 THEN FilterQueue(Tail(acts), dice, gr, used)
                  ELSE <<a>> \o FilterQueue(Tail(acts), dice, gr, Append(used, v))

(* handleBuyCell taking blocked cells for playable ones *)
handleBuyCell_AnyCell(st, ws, cellId, role) ==
  LET playerId == Attached(st, ws)
      withoutCell == SelectSeq(QueuedActs(st.pe, playerId), LAMBDA a : a.cellId # cellId)
      candidate == Append(withoutCell, [cellId |-> cellId, role |-> role])
      open == [c \in DOMAIN st.gr |-> [st.gr[c] EXCEPT !.blocked = FALSE]]
      nextQueued == FilterQueue(candidate, st.pl[playerId].dice, open, <<>>)
  IN IF playerId = NoPlayer THEN NotJoined(st, ws)
     ELSE IF st.cfg.phase # "buy_phase" THEN broadcastState(st)
     ELSE IF \/ cellId \notin DOMAIN st.gr
             \/ playerId \notin DOMAIN st.pl
             \/ ~HasDie(st.pl[playerId], st.gr[cellId].diceValue)
       THEN sendTo(st, ws, "error")
     ELSE IF ~\E i \in DOMAIN nextQueued : nextQueued[i].cellId = cellId
       THEN sendTo(st, ws, "error")
     ELSE broadcastState(
            [st EXCEPT !.pe.buy = MapSet(@, [playerId |-> playerId, acts |-> nextQueued]),
                       !.pe.buyDone = @ \ {playerId}])

(* handleBuyCell that appends to the queue without taking the cell out first *)
handleBuyCell_Appends(st, ws, cellId, role) ==
  LET playerId == Attached(st, ws)
      candidate == Append(QueuedActs(st.pe, playerId), [cellId |-> cellId, role |-> role])
      nextQueued == FilterQueue(candidate, st.pl[playerId].dice, st.gr, <<>>)
  IN IF playerId = NoPlayer THEN NotJoined(st, ws)
     ELSE IF st.cfg.phase # "buy_phase" THEN broadcastState(st)
     ELSE IF \/ cellId \notin DOMAIN st.gr
             \/ st.gr[cellId].blocked
             \/ playerId \notin DOMAIN st.pl
             \/ ~HasDie(st.pl[playerId], st.gr[cellId].diceValue)
       THEN sendTo(st, ws, "error")
     ELSE IF ~\E i \in DOMAIN nextQueued : nextQueued[i].cellId = cellId
       THEN sendTo(st, ws, "error")
     ELSE broadcastState(
            [st EXCEPT !.pe.buy = MapSet(@, [playerId |-> playerId, acts |-> nextQueued]),
                       !.pe.buyDone = @ \ {playerId}])

handleBuyCell(st, ws, cellId, role) ==
  LET playerId == Attached(st, ws)
      current == QueuedActs(st.pe, playerId)
      withoutCell == SelectSeq(current, LAMBDA a : a.cellId # cellId)
      candidate == Append(withoutCell, [cellId |-> cellId, role |-> role])
      nextQueued == FilterQueue(candidate, st.pl[playerId].dice, st.gr, <<>>)
  IN IF playerId = NoPlayer THEN NotJoined(st, ws)
     ELSE IF st.cfg.phase # "buy_phase" THEN broadcastState(st)
     ELSE IF \/ cellId \notin DOMAIN st.gr
             \/ st.gr[cellId].blocked
             \/ playerId \notin DOMAIN st.pl
             \/ ~HasDie(st.pl[playerId], st.gr[cellId].diceValue)
       THEN sendTo(st, ws, "error")
     ELSE IF ~\E i \in DOMAIN nextQueued : nextQueued[i].cellId = cellId
       THEN sendTo(st, ws, "error")
     ELSE broadcastState(
            [st EXCEPT !.pe.buy = MapSet(@, [playerId |-> playerId, acts |-> nextQueued]),
                       !.pe.buyDone = @ \ {playerId}])

handleBuyCellCancel(st, ws, cellId) ==
  LET playerId == Attached(st, ws)
      rest == SelectSeq(QueuedActs(st.pe, playerId), LAMBDA a : a.cellId # cellId)
  IN IF playerId = NoPlayer THEN NotJoined(st, ws)
     ELSE IF st.cfg.phase # "buy_phase" THEN broadcastState(st)
     ELSE broadcastState(
            [st EXCEPT !.pe.buy = IF rest = <<>> THEN MapDelete(@, playerId)
                                  ELSE MapSet(@, [playerId |-> playerId, acts |-> rest]),
                       !.pe.buyDone = @ \ {playerId}])

handleBuyDone(st, ws) ==
  LET playerId == Attached(st, ws)
      st1 == [st EXCEPT !.pe.buyDone = @ \cup {playerId}]
  IN IF playerId = NoPlayer THEN NotJoined(st, ws)
     ELSE IF st.cfg.phase # "buy_phase" THEN broadcastState(st)
     ELSE IF Len(st.pl) > 0 /\ Cardinality(st1.pe.buyDone) >= Len(st.pl) THEN alarm(st1)
     ELSE broadcastState(st1)

handleAuctionBid(st, ws, conflictId, amount) ==
  LET playerId == Attached(st, ws)
      known == /\ conflictId \in DOMAIN st.pe.conflicts
               /\ playerId \in Range(st.pe.conflicts[conflictId].playerIds)
      others == {e \in st.pe.auctionBids : ~(e.conflictId = conflictId /\ e.playerId = playerId)}
  IN IF playerId = NoPlayer THEN st
     ELSE IF st.cfg.phase # "auction" THEN st
     ELSE IF ~known THEN st
     ELSE broadcastState(
            [st EXCEPT !.pe.auctionBids =
               others \cup {[conflictId |-> conflictId, playerId |-> playerId,
                             amount |-> IF amount = NaN THEN NaN ELSE Max(0, amount)]}])


OwnsCell(cell, pid, role) ==
  \E i \in DOMAIN cell.owners : cell.owners[i].playerId = pid /\ cell.owners[i].role = role

Coord(cell) == <<cell.q, cell.r>>

(* grid.find(c => c.q === hex.q && c.r === hex.r): the cell's id, 0 when none *)
CellAt(gr, hex) == FindIndex(gr, LAMBDA c : axialEquals(Coord(c), hex))

(* computePathRevenue counting no hex as enemy territory *)
computePathRevenue_NoEnemy(gr, playerId, producer, seller, path) ==
  producer.producer * Max(0, Min(seller.seller - (Len(path) - 1), 1))

(* Math.floor is applied to a product of integers: the cell values are integers
   (hex.ts randomInt, aged by 1) and effectiveSeller is 0 or 1 *)
computePathRevenue(gr, playerId, producer, seller, path) ==
  LET pathLength == Len(path) - 1
      enemyTerritory ==
        Cardinality({i \in 2..(Len(path) - 1) :
          LET c == CellAt(gr, path[i])
          IN c # 0 /\ \E o \in DOMAIN gr[c].owners : gr[c].owners[o].playerId # playerId})
      effectiveSeller == Max(0, Min(seller.seller - pathLength - 2 * enemyTerritory, 1))
  IN producer.producer * effectiveSeller

(* handlePath without the check that consecutive hexes are neighbours *)
handlePath_AnyStep(st, ws, producerId, sellerId, path) ==
  LET playerId == Attached(st, ws)
      producer == st.gr[producerId]
      seller == st.gr[sellerId]
      blockedSet == {Coord(st.gr[c]) : c \in {x \in DOMAIN st.gr : st.gr[x].blocked}}
  IN IF playerId = NoPlayer THEN st
     ELSE IF st.cfg.phase # "path_phase" THEN st
     ELSE IF producerId \notin DOMAIN st.gr \/ ~OwnsCell(producer, playerId, "producer") THEN st
     ELSE IF sellerId \notin DOMAIN st.gr \/ ~OwnsCell(seller, playerId, "seller") THEN st
     ELSE IF \/ Len(path) < 2
             \/ ~axialEquals(path[1], Coord(producer))
             \/ ~axialEquals(path[Len(path)], Coord(seller))
       THEN sendTo(st, ws, "error")
     ELSE IF \E i \in 1..(Len(path) - 1) : path[i + 1] \in blockedSet
       THEN sendTo(st, ws, "error")
     ELSE broadcastState(sendTo(
            [st EXCEPT
               !.sp = {e \in @ : e.playerId # playerId} \cup
                      {[playerId |-> playerId, producerId |-> producerId,
                        sellerId |-> sellerId, path |-> path,
                        revenue |-> computePathRevenue(st.gr, playerId, producer, seller, path)]},
               !.pe.pathReady = @ \ {playerId}],
            ws, "path_revenue"))

handlePath(st, ws, producerId, sellerId, path) ==
  LET playerId == Attached(st, ws)
      producer == st.gr[producerId]
      seller == st.gr[sellerId]
      blockedSet == {Coord(st.gr[c]) : c \in {x \in DOMAIN st.gr : st.gr[x].blocked}}
      revenue == computePathRevenue(st.gr, playerId, producer, seller, path)
  IN IF playerId = NoPlayer THEN st
     ELSE IF st.cfg.phase # "path_phase" THEN st
     ELSE IF producerId \notin DOMAIN st.gr \/ ~OwnsCell(producer, playerId, "producer") THEN st
     ELSE IF sellerId \notin DOMAIN st.gr \/ ~OwnsCell(seller, playerId, "seller") THEN st
     ELSE IF \/ Len(path) < 2
             \/ ~axialEquals(path[1], Coord(producer))
             \/ ~axialEquals(path[Len(path)], Coord(seller))
       THEN sendTo(st, ws, "error")
     ELSE IF \E i \in 1..(Len(path) - 1) :
               path[i + 1] \notin axialNeighbors(path[i]) \/ path[i + 1] \in blockedSet
       THEN sendTo(st, ws, "error")
     ELSE broadcastState(sendTo(
            [st EXCEPT
               !.sp = {e \in @ : e.playerId # playerId} \cup
                      {[playerId |-> playerId, producerId |-> producerId,
                        sellerId |-> sellerId, path |-> path, revenue |-> revenue]},
               !.pe.pathReady = @ \ {playerId}],
            ws, "path_revenue"))

handlePathDone(st, ws) ==
  LET playerId == Attached(st, ws)
      st1 == [st EXCEPT !.pe.pathReady = @ \cup {playerId}]
  IN IF playerId = NoPlayer THEN NotJoined(st, ws)
     ELSE IF st.cfg.phase # "path_phase" THEN broadcastState(st)
     ELSE IF Len(st.pl) > 0 /\ Cardinality(st1.pe.pathReady) >= Len(st.pl) THEN alarm(st1)
     ELSE broadcastState(st1)

(* webSocketMessage: the handler of each message type; any other type is
   answered with a broadcast *)
webSocketMessage(st, ws, msg) ==
  CASE msg.type = "tick" -> handleTick(st)
    [] msg.type = "join" -> handleJoin(st, ws)
    [] msg.type = "rejoin" -> handleRejoin(st, ws, msg.playerId)
    [] msg.type = "start_game" -> handleStartGame(st, ws)
    [] msg.type = "buy_cell" -> handleBuyCell(st, ws, msg.cellId, msg.role)
    [] msg.type = "buy_cell_cancel" -> handleBuyCellCancel(st, ws, msg.cellId)
    [] msg.type = "buy_done" -> handleBuyDone(st, ws)
    [] msg.type = "auction_bid" -> handleAuctionBid(st, ws, msg.conflictId, msg.amount)
    [] msg.type = "path" -> handlePath(st, ws, msg.producerId, msg.sellerId, msg.path)
    [] msg.type = "path_done" -> handlePathDone(st, ws)
    [] msg.type = "market_bid" -> handleMarketBid(st, ws, msg.dieIndex, msg.amount)
    [] msg.type = "market_skip" -> handleMarketSkip(st, ws)
    [] msg.type = "market_recycle" -> handleMarketRecycle(st, ws, msg.dieIndex)
    [] OTHER -> broadcastState(st)

(* webSocketClose *)
webSocketClose(st) == broadcastState(st)

(* fetch: a websocket is accepted, its attachment naming no player *)
fetch(st) ==
  [st EXCEPT !.rid = RoomId,
             !.so = Append(@, [playerId |-> NoPlayer, open |-> TRUE])]

----------------------------------------------------------------------------
(* Inputs *)

(* The generator's draws for a board of radius 1 (7 cells, 5 of them blocked:
   the centre and its south-east neighbour are playable) and of radius 2
   (19 cells, 5 blocked, every face on some playable cell; the centre and its
   neighbours to the south-east and east take a 1, the north-east one a 2). *)
Draw1 ==
  [blocked |-> {1, 2, 3, 6, 7},
   diceValues |-> <<1, 1, 1, 1, 1, 2, 2>>,
   producers |-> <<5, 5, 5, 9, 4, 5, 2>>,
   sellers |-> <<5, 5, 5, 9, 3, 5, 2>>]

Draw2 ==
  [blocked |-> {1, 3, 9, 17, 19},
   diceValues |-> <<3, 3, 4, 4, 5, 6, 3, 4, 5, 1, 1, 6, 5, 2, 1, 6, 3, 4, 5>>,
   producers |-> <<5, 5, 5, 5, 5, 5, 5, 5, 5, 9, 4, 5, 5, 5, 2, 5, 5, 5, 5>>,
   sellers |-> <<5, 5, 5, 5, 5, 5, 5, 5, 5, 9, 3, 5, 5, 1, 2, 5, 5, 5, 5>>]

(* what generateGrid can draw for a region of the given radius and blocked count *)
ValidDraw(draw, radius, blockedCount) ==
  LET total == hexRegionCount(radius)
      playable == (1..total) \ draw.blocked
  IN /\ draw.blocked \subseteq 1..total
     /\ Cardinality(draw.blocked) = Min(blockedCount, Max(0, total - 1))
     /\ Len(draw.diceValues) = total /\ Range(draw.diceValues) \subseteq 1..6
     /\ Len(draw.producers) = total /\ Range(draw.producers) \subseteq 1..9
     /\ Len(draw.sellers) = total /\ Range(draw.sellers) \subseteq 1..9
     /\ Cardinality(playable) >= 6 => {draw.diceValues[i] : i \in playable} = 1..6

Seeds ==
  {s \in {[dice |-> <<1, 2, 1>>, pos |-> 1, board |-> <<Draw1, Draw2>>]} :
     \A k \in DOMAIN s.board : ValidDraw(s.board[k], k, MIN_BLOCKED)}

(* a bid no player can pay: more than the starting money and the first round's pay *)
Overbid == STARTING_MONEY + 2

(* a bid a player can pay once but not twice *)
HalfPurse == Overbid \div 2

BidAmounts == (0..MaxBid) \cup {Overbid}

(* the amount of a market_bid: a number, or absent from the message *)
MarketAmounts == BidAmounts \cup {NaN}

(* the cell ids a message names: no cell of the board (0), the cells a die of the
   generator can buy, one blocked cell and one cell no such die can buy *)
CellChoices(gr) ==
  LET blocked == {c \in DOMAIN gr : gr[c].blocked}
      buyable == {c \in DOMAIN gr : ~gr[c].blocked /\ gr[c].diceValue \in Range(rng.dice)}
      others == (DOMAIN gr \ blocked) \ buyable
      Least(S) == IF S = {} THEN {} ELSE {CHOOSE c \in S : \A d \in S : c <= d}
  IN {0} \cup buyable \cup Least(blocked) \cup Least(others)

(* the hexes a submitted path is drawn from: the centre and its neighbours to
   the south-east, east and north-east *)
PathHexes == {<<0, 0>>, <<0, 1>>, <<1, 0>>, <<1, -1>>}

Paths == UNION {[1..k -> PathHexes] : k \in 1..MaxPathHexes}

----------------------------------------------------------------------------
(* The state machine *)

Changed(st) == <<st.cfg, st.pl, st.gr, st.pe, st.sp, st.win>> # storage

GameMessages ==
  {"market_bid", "market_skip", "market_recycle", "buy_cell", "buy_cell_cancel",
   "buy_done", "auction_bid", "path", "path_done"}

(* an auction_bid the room stores: sent in the auction phase by a joined player
   who is a party to the conflict it names *)
AsksBid(msg, ws) ==
  /\ asked.on
  /\ msg.type = "auction_bid"
  /\ config.phase = "auction"
  /\ sockets[ws].playerId # NoPlayer
  /\ msg.conflictId \in DOMAIN pending.conflicts
  /\ sockets[ws].playerId \in Range(pending.conflicts[msg.conflictId].playerIds)

(* The messages kept on record when asked.on: in buy_phase, a joined player's
   buy_cell for a cell they hold a die for, and their buy_cell_cancel of a
   cell they have queued. *)
Asks(msg, ws) ==
  /\ asked.on
  /\ msg.type \in {"buy_cell", "buy_cell_cancel"}
  /\ config.phase = "buy_phase"
  /\ sockets[ws].playerId # NoPlayer
  /\ msg.cellId \in DOMAIN grid
  /\ msg.type = "buy_cell" =>
       /\ ~grid[msg.cellId].blocked
       /\ HasDie(players[sockets[ws].playerId], grid[msg.cellId].diceValue)
  /\ msg.type = "buy_cell_cancel" =>
       \E e \in Range(pending.buy) :
         /\ e.playerId = sockets[ws].playerId
         /\ \E i \in DOMAIN e.acts : e.acts[i].cellId = msg.cellId

(* a path the room accepted: its handler answered with path_revenue *)
AsksPath(st, msg, ws) ==
  /\ asked.on
  /\ msg.type = "path"
  /\ \E m \in Range(st.out) : m.to = ws /\ m.type = "path_revenue"

(* the record holds the paths accepted since the last round_start was resolved *)
PathsOnRecord == asked.log # <<>> /\ asked.log[1].type = "path"

Commit(st, msg, ws) ==
  /\ (msg.type \in GameMessages /\ Changed(st)) => movesLeft > 0
  /\ (Asks(msg, ws) \/ AsksBid(msg, ws) \/ AsksPath(st, msg, ws)) => asked.left > 0
  /\ asked' = IF AsksPath(st, msg, ws)
                THEN [asked EXCEPT
                        !.left = @ - 1,
                        !.log = Append(IF PathsOnRecord THEN @ ELSE <<>>,
                                       [playerId |-> sockets[ws].playerId,
                                        type |-> msg.type,
                                        revenue |->
                                          StoredRevenue(st.sp, sockets[ws].playerId)])]
                ELSE IF Asks(msg, ws)
                THEN [asked EXCEPT
                        !.left = @ - 1,
                        !.log = Append(@, [playerId |-> sockets[ws].playerId,
                                           type |-> msg.type, cellId |-> msg.cellId])]
                ELSE IF AsksBid(msg, ws)
                  THEN [asked EXCEPT
                          !.left = @ - 1,
                          !.log = Append(IF res.phase = "none" THEN @ ELSE <<>>,
                                         [playerId |-> sockets[ws].playerId,
                                          type |-> msg.type,
                                          conflictId |-> msg.conflictId,
                                          amount |-> IF msg.amount = NaN THEN NaN
                                                     ELSE Max(0, msg.amount)])]
                ELSE IF st.cfg.phase # "buy_phase" /\ st.rs.phase # "buy_phase"
                        /\ ~(asked.on /\ "auction" \in {st.cfg.phase, st.rs.phase}
                                      /\ res.phase = "none")
                        /\ ~(PathsOnRecord
                               /\ st.cfg.phase \in {"path_phase", "round_end", "round_start"})
                  THEN [asked EXCEPT !.log = <<>>]
                  ELSE asked
  /\ movesLeft' = IF msg.type \in GameMessages /\ Changed(st) THEN movesLeft - 1 ELSE movesLeft
  /\ config' = st.cfg
  /\ players' = st.pl
  /\ grid' = st.gr
  /\ pending' = st.pe
  /\ submittedPaths' = st.sp
  /\ winnerId' = st.win
  /\ alarmAt' = st.al
  /\ sockets' = st.so
  /\ roomId' = st.rid
  /\ lobby' = st.lb
  /\ rng' = st.rnd
  /\ res' = st.rs
  /\ roundPhases' = st.ph
  /\ trace' = IF observing
                THEN [msg |-> msg, ws |-> ws, phase |-> config.phase, sent |-> st.out]
                ELSE NoTrace
  /\ observing' = observing

(* the runtime delivers the alarm: it is no longer set when alarm() runs *)
Fired(st) == alarm([st EXCEPT !.al = NoTime])

(* Lobby.createRoom: the room is listed, its entry counting no player *)
createRoom == [rooms |-> <<RoomId>>, meta |-> {0}, down |-> FALSE]

(* initialize(roundCount): the room as the directory creates it *)
initialize(seed, roundCount) ==
  [cfg |-> [NoConfig EXCEPT !.roundCount = roundCount, !.phase = "lobby"],
   pl |-> <<>>, gr |-> <<>>, pe |-> emptyPendingActions, sp |-> {}, win |-> NoPlayer,
   al |-> NoTime, so |-> <<>>, rid |-> NoRoom, lb |-> createRoom,
   rnd |-> seed, out |-> <<>>, rs |-> NoRes, ph |-> <<>>]

NoAsks == [on |-> FALSE, left |-> 0, log |-> <<>>]

(* the room in state st, with moves player messages still to be accepted and
   the buy_phase messages kept as asks says *)
InitWith(st, obs, moves, asks) ==
  /\ config = st.cfg
  /\ players = st.pl
  /\ grid = st.gr
  /\ pending = st.pe
  /\ submittedPaths = st.sp
  /\ winnerId = st.win
  /\ alarmAt = st.al
  /\ sockets = st.so
  /\ roomId = st.rid
  /\ lobby = st.lb
  /\ rng = st.rnd
  /\ trace = NoTrace
  /\ res = NoRes
  /\ roundPhases = st.ph
  /\ observing = obs
  /\ movesLeft = moves
  /\ asked = asks

(* the room in state st, with moves player messages still to be accepted *)
InitFrom(st, obs, moves) == InitWith(st, obs, moves, NoAsks)

InitRoom(seeds, obs, moves, rounds) ==
  \E seed \in seeds, roundCount \in rounds :
    InitFrom(initialize(seed, roundCount), obs, moves)

Init == InitRoom(Seeds, FALSE, MaxMoves, 1..MaxRounds)

Live == OpenSockets(sockets)

(* The message msg arrived on websocket ws and its handler left the room in
   state st.  Each action below hands its message to the handler that
   webSocketMessage dispatches its type to. *)
Receive(st, ws, msg) == Commit(st, msg, ws)

Connect ==
  /\ Len(sockets) < MaxSockets
  /\ Commit(fetch(Cur), [type |-> "connect"], 0)

Join ==
  \E ws \in Live :
    /\ config.phase = "lobby" => Len(players) < MaxPlayers
    /\ Receive(handleJoin(Cur, ws), ws, [type |-> "join"])

(* a rejoin names a player of the room or an id the room never issued *)
Rejoin ==
  \E ws \in Live : \E playerId \in 1..(Len(players) + 1) :
    /\ (config.phase = "lobby" /\ playerId > Len(players)) => Len(players) < MaxPlayers
    /\ Receive(handleRejoin(Cur, ws, playerId), ws, [type |-> "rejoin", playerId |-> playerId])

StartGame == \E ws \in Live : Receive(handleStartGame(Cur, ws), ws, [type |-> "start_game"])

Tick == \E ws \in Live : Receive(handleTick(Cur), ws, [type |-> "tick"])

(* A handler turns a message away on the sender's attachment and the phase before
   it reads the message's fields: the fields are drawn only when it reads them. *)
Reads(ws, phase) == sockets[ws].playerId # NoPlayer /\ config.phase = phase

MarketBid ==
  \E ws \in Live :
    \E dieIndex \in IF Reads(ws, "market_phase") THEN 0..Len(config.marketDice) ELSE {0},
       amount \in IF Reads(ws, "market_phase") THEN MarketAmounts ELSE {MARKET_MIN_PRICE} :
      Receive(handleMarketBid(Cur, ws, dieIndex, amount), ws,
              [type |-> "market_bid", dieIndex |-> dieIndex, amount |-> amount])

MarketSkip == \E ws \in Live : Receive(handleMarketSkip(Cur, ws), ws, [type |-> "market_skip"])

MarketRecycle ==
  \E ws \in Live :
    \E dieIndex \in IF Reads(ws, "market_phase") THEN 0..HAND_SIZE ELSE {0} :
      Receive(handleMarketRecycle(Cur, ws, dieIndex), ws,
              [type |-> "market_recycle", dieIndex |-> dieIndex])

BuyCell ==
  \E ws \in Live :
    \E cellId \in IF Reads(ws, "buy_phase") THEN CellChoices(grid) ELSE {0},
       role \in IF Reads(ws, "buy_phase") THEN Roles ELSE {"producer"} :
      Receive(handleBuyCell(Cur, ws, cellId, role), ws,
              [type |-> "buy_cell", cellId |-> cellId, role |-> role])

BuyCellCancel ==
  \E ws \in Live :
    \E cellId \in IF Reads(ws, "buy_phase") THEN CellChoices(grid) ELSE {0} :
      Receive(handleBuyCellCancel(Cur, ws, cellId), ws,
              [type |-> "buy_cell_cancel", cellId |-> cellId])

BuyDone == \E ws \in Live : Receive(handleBuyDone(Cur, ws), ws, [type |-> "buy_done"])

AuctionBidOf(amounts) ==
  \E ws \in Live :
    \E conflictId \in IF Reads(ws, "auction") THEN 1..(Len(pending.conflicts) + 1) ELSE {0},
       amount \in IF Reads(ws, "auction") THEN amounts ELSE {0} :
      Receive(handleAuctionBid(Cur, ws, conflictId, amount), ws,
              [type |-> "auction_bid", conflictId |-> conflictId, amount |-> amount])

AuctionBid == AuctionBidOf(BidAmounts)

(* the path's hexes are read only once both named cells are the sender's *)
ReadsPath(ws, producerId, sellerId) ==
  /\ Reads(ws, "path_phase")
  /\ producerId \in DOMAIN grid /\ OwnsCell(grid[producerId], sockets[ws].playerId, "producer")
  /\ sellerId \in DOMAIN grid /\ OwnsCell(grid[sellerId], sockets[ws].playerId, "seller")

PathOf(paths) ==
  \E ws \in Live :
    \E producerId \in IF Reads(ws, "path_phase") THEN CellChoices(grid) ELSE {0},
       sellerId \in IF Reads(ws, "path_phase") THEN CellChoices(grid) ELSE {0} :
      \E path \in IF ReadsPath(ws, producerId, sellerId) THEN paths ELSE {<<>>} :
        Receive(handlePath(Cur, ws, producerId, sellerId, path), ws,
                [type |-> "path", producerId |-> producerId, sellerId |-> sellerId,
                 path |-> path])

Path == PathOf(Paths)

PathDone == \E ws \in Live : Receive(handlePathDone(Cur, ws), ws, [type |-> "path_done"])

(* the alarm comes due and the runtime calls alarm() *)
AlarmFires ==
  /\ alarmAt = 0
  /\ Commit(Fired(Cur), [type |-> "alarm"], 0)

(* time passes, up to the next deadline *)
Elapse ==
  /\ alarmAt > 0 \/ config.phaseEndsAt > 0
  /\ LET d == IF alarmAt > 0 /\ config.phaseEndsAt > 0 THEN Min(alarmAt, config.phaseEndsAt)
              ELSE Max(alarmAt, config.phaseEndsAt)
         left(t) == IF t > 0 THEN Max(0, t - d) ELSE t
     IN Commit([Cur EXCEPT !.al = left(@), !.cfg.phaseEndsAt = left(@)],
               [type |-> "elapse"], 0)

Next ==
  \/ Connect
  \/ Join
  \/ StartGame
  \/ Tick
  \/ MarketBid
  \/ MarketSkip
  \/ MarketRecycle
  \/ BuyCell
  \/ BuyCellCancel
  \/ BuyDone
  \/ AuctionBid
  \/ Path
  \/ PathDone
  \/ AlarmFires
  \/ Elapse

Spec == Init /\ [][Next]_vars

----------------------------------------------------------------------------
(* Rooms in mid-game.  A script is a sequence of events: a connection, a
   message with the websocket it arrives on, or the alarm coming due.  Run
   hands them to fetch, webSocketMessage and alarm in turn, so a room a script
   leads to is a room the program can be in. *)

Event(st, ev) ==
  CASE ev.msg.type = "connect" -> fetch(st)
    [] ev.msg.type = "alarm" -> Fired(st)
    [] OTHER -> webSocketMessage(st, ev.ws, ev.msg)

RECURSIVE Run(_, _)
Run(st, script) ==
  IF script = <<>> THEN [st EXCEPT !.out = <<>>, !.rs = NoRes]
  ELSE Run(Event(st, Head(script)), Tail(script))

Msg(ws, msg) == [ws |-> ws, msg |-> msg]

Everyone(n, type) == [ws \in 1..n |-> Msg(ws, [type |-> type])]

(* n players connect and join, one per websocket; the first starts the game;
   the round_start timer fires: the script to the first market_phase *)
MarketScript(n) ==
  [ws \in 1..n |-> Msg(0, [type |-> "connect"])]
    \o Everyone(n, "join")
    \o <<Msg(1, [type |-> "start_game"]), Msg(0, [type |-> "alarm"])>>

MarketStart(n, seed, roundCount) == Run(initialize(seed, roundCount), MarketScript(n))

Bid(ws, dieIndex, amount) ==
  Msg(ws, [type |-> "market_bid", dieIndex |-> dieIndex, amount |-> amount])

Buy(ws, cellId, role) == Msg(ws, [type |-> "buy_cell", cellId |-> cellId, role |-> role])

(* every player skips the market: the room at the start of its first buy_phase *)
BuyStart(n, seed, roundCount) ==
  Run(initialize(seed, roundCount), MarketScript(n) \o Everyone(n, "market_skip"))

(* the market_phase of a table of TablePlayers *)
MarketInit ==
  \E seed \in Seeds : InitFrom(MarketStart(TablePlayers, seed, 1), FALSE, TableMoves)

MarketNext == MarketBid \/ MarketSkip \/ MarketRecycle \/ AlarmFires \/ Elapse

MarketSpec == MarketInit /\ [][MarketNext]_vars

(* the buy_phase of a table of TablePlayers *)
BuyInit ==
  \E seed \in Seeds :
    InitWith(BuyStart(TablePlayers, seed, 1), FALSE, BuyMoves,
             [on |-> TRUE, left |-> MaxAsks, log |-> <<>>])

BuyNext == BuyCell \/ BuyCellCancel \/ BuyDone \/ AlarmFires \/ Elapse

BuySpec == BuyInit /\ [][BuyNext]_vars

(* The auctions of a table of three: every player bids 1 on die 0; players 3 and
   2 bid 1 on die 1 while player 1 takes die 0; all three claim the centre cell;
   players 1 and 2 contend for two cells while player 3 buys a third. *)
AuctionScripts ==
  {<<Bid(1, 0, 1), Bid(2, 0, 1), Bid(3, 0, 1)>>,
   <<Bid(1, 0, 2), Bid(3, 1, 1), Bid(2, 1, 1)>>,
   Everyone(3, "market_skip")
     \o <<Buy(1, 10, "producer"), Buy(2, 10, "seller"), Buy(3, 10, "producer")>>
     \o Everyone(3, "buy_done"),
   Everyone(3, "market_skip")
     \o <<Buy(1, 10, "producer"), Buy(1, 11, "seller"), Buy(2, 10, "seller"),
          Buy(2, 11, "seller"), Buy(3, 15, "producer")>>
     \o Everyone(3, "buy_done")}

(* the room st, which a script has led to an auction *)
AuctionFrom(st) ==
  /\ st.cfg.phase = "auction"
  /\ InitWith(st, FALSE, TableMoves, [on |-> TRUE, left |-> MaxAsks, log |-> <<>>])

AuctionInit ==
  \E seed \in Seeds, script \in AuctionScripts :
    AuctionFrom(Run(initialize(seed, 1), MarketScript(TablePlayers) \o script))

AuctionAmounts == BidAmounts \cup {HalfPurse}

AuctionNext == AuctionBidOf(AuctionAmounts) \/ AlarmFires \/ Elapse

AuctionSpec == AuctionInit /\ [][AuctionNext]_vars

(* The path_phase of a table of TablePlayers. Player 1 owns the centre as producer and
   its south-east neighbour as seller while player 2 owns the hex east of both,
   or a hex away from them; or player 1 owns the centre as producer and its
   east neighbour, of seller value 2, as seller. *)
PathScripts ==
  {Everyone(TablePlayers, "market_skip")
     \o <<Buy(1, 10, "producer"), Buy(1, 11, "seller"), Buy(2, 15, "producer")>>
     \o Everyone(TablePlayers, "buy_done"),
   Everyone(TablePlayers, "market_skip")
     \o <<Buy(1, 10, "producer"), Buy(1, 11, "seller"), Buy(2, 14, "producer")>>
     \o Everyone(TablePlayers, "buy_done"),
   Everyone(TablePlayers, "market_skip")
     \o <<Buy(1, 10, "producer"), Buy(1, 15, "seller"), Buy(2, 14, "seller")>>
     \o Everyone(TablePlayers, "buy_done")}

(* the hexes of a path at the table: the centre, its neighbours to the south-east
   and east, and its blocked neighbour to the north-west *)
TableHexes == {<<0, 0>>, <<0, 1>>, <<1, 0>>, <<0, -1>>}

TablePaths == UNION {[1..k -> TableHexes] : k \in 1..MaxPathHexes}

(* the room st, which a script has led to path_phase *)
PathFrom(st) == st.cfg.phase = "path_phase" /\ InitFrom(st, TRUE, PathMoves)

PathInit ==
  \E seed \in Seeds, script \in PathScripts :
    PathFrom(Run(initialize(seed, 1), MarketScript(TablePlayers) \o script))

PathNext == PathOf(TablePaths) \/ PathDone \/ AlarmFires \/ Elapse

PathSpec == PathInit /\ [][PathNext]_vars

(* A game of up to MaxRounds + 1 rounds at the table, from the path_phase of its first
   round on: paths are sent and the timers lead through round_end into the
   next round, where cells are bought again. *)
RoundsInit ==
  \E seed \in Seeds, script \in PathScripts, roundCount \in 1..(MaxRounds + 1) :
    LET st == Run(initialize(seed, roundCount), MarketScript(TablePlayers) \o script)
    IN st.cfg.phase = "path_phase" /\ InitFrom(st, FALSE, RoundMoves)

(* the paths of at most two hexes *)
ShortPaths == {path \in TablePaths : Len(path) <= 2}

RoundsNext == PathOf(ShortPaths) \/ PathDone \/ BuyCell \/ BuyDone \/ AlarmFires \/ Elapse

RoundsSpec == RoundsInit /\ [][RoundsNext]_vars

(* The room left to its timers: no player message is accepted after start_game,
   the alarm is delivered once due, and time does not stop. *)
LiveInit == InitRoom(Seeds, FALSE, 0, 1..(MaxRounds + 1))

(* Weak fairness of AlarmFires, spelt out: AlarmFires is enabled exactly when the
   alarm is due (alarmAt = 0) and every AlarmFires step leaves it not due, so
   WF_vars(AlarmFires) says that the alarm is not due forever. *)
AlarmDelivered == []<>(alarmAt # 0)

LiveSpec == LiveInit /\ [][Next]_vars /\ WF_vars(Elapse) /\ AlarmDelivered

(* The room with every handled message and the messages sent in reply on record *)
ObsInit == InitRoom(Seeds, TRUE, ObsMoves, 1..MaxRounds)

ObsSpec == ObsInit /\ [][Next]_vars

(* The runtime delivers an alarm at least once: alarm() runs a second time right
   after it ran, whatever it armed meanwhile. *)
AlarmFiresTwice ==
  /\ trace.msg.type = "alarm"
  /\ Commit(alarm(Cur), [type |-> "alarm"], 0)

(* The table from its market_phase on, every handled message on record, with
   the players' signals, their ticks, and alarms that may be delivered twice. *)
RetryInit ==
  \E seed \in Seeds : InitFrom(MarketStart(TablePlayers, seed, 1), TRUE, TableMoves)

RetryNext ==
  \/ MarketSkip
  \/ BuyDone
  \/ PathDone
  \/ Tick
  \/ AlarmFires
  \/ AlarmFiresTwice
  \/ Elapse

RetrySpec == RetryInit /\ [][RetryNext]_vars

(* The room while every call to the Lobby fails, left to its timers, with every
   handled message and the messages sent in reply on record. *)
OutageInit ==
  \E seed \in Seeds, roundCount \in 1..MaxRounds :
    InitFrom([initialize(seed, roundCount) EXCEPT !.lb.down = TRUE], TRUE, 0)

OutageSpec == OutageInit /\ [][Next]_vars

(* the client's sell_cell message, for a cell that has an owner or for none *)
SellCell ==
  \E ws \in Live :
    \E cellId \in {c \in DOMAIN grid : grid[c].owners # <<>>} \cup {0} :
      Receive(webSocketMessage(Cur, ws, [type |-> "sell_cell", cellId |-> cellId]), ws,
              [type |-> "sell_cell", cellId |-> cellId])

FourAlarms == [i \in 1..4 |-> Msg(0, [type |-> "alarm"])]

(* The buy_phase of the second round at the table, the cells bought in the
   first round being owned, with every handled message on record. *)
SellInit ==
  \E seed \in Seeds, script \in PathScripts :
    LET st == Run(initialize(seed, 2), MarketScript(TablePlayers) \o script \o FourAlarms)
    IN st.cfg.phase = "buy_phase" /\ InitFrom(st, TRUE, BuyMoves)

SellNext == SellCell \/ BuyDone \/ AlarmFires \/ Elapse

SellSpec == SellInit /\ [][SellNext]_vars

(* the buy_phase of a table of TablePlayers up to its deadline, with every
   handled message and the messages sent in reply on record *)
BuyObsInit ==
  \E seed \in Seeds : InitFrom(BuyStart(TablePlayers, seed, 1), TRUE, BuyMoves)

BuyObsNext == BuyCell \/ BuyCellCancel \/ BuyDone

BuyObsSpec == BuyObsInit /\ [][BuyObsNext]_vars

(* a client closes its connection: the websocket is gone when webSocketClose runs *)
SocketCloses ==
  \E ws \in Live :
    Commit(webSocketClose([Cur EXCEPT !.so[ws].open = FALSE]), [type |-> "close"], ws)

(* The room from its creation to its cleanup with players coming, going and
   coming back: no game message is accepted after start_game, every handled
   message is on record. *)
LifeInit == InitRoom(Seeds, TRUE, 0, 1..MaxRounds)

LifeNext ==
  Connect \/ Join \/ Rejoin \/ StartGame \/ SocketCloses \/ Tick \/ AlarmFires \/ Elapse

LifeSpec == LifeInit /\ [][LifeNext]_vars

(* A game of one round or of MaxRounds + 2 rounds at the table, from the
   path_phase of its first round on, with the accepted paths of the round on
   record: paths are sent and the timers lead from round to round. *)
PayInit ==
  \E seed \in Seeds, script \in PathScripts, roundCount \in {1, MaxRounds + 2} :
    LET st == Run(initialize(seed, roundCount), MarketScript(TablePlayers) \o script)
    IN /\ st.cfg.phase = "path_phase"
       /\ InitWith(st, FALSE, RoundMoves, [on |-> TRUE, left |-> MaxAsks, log |-> <<>>])

PayNext == PathOf(ShortPaths) \/ PathDone \/ AlarmFires \/ Elapse

PaySpec == PayInit /\ [][PayNext]_vars

(* The room whose players reconnect: a websocket may send rejoin in any phase,
   the market is bid on, cells are bought and the timers lead the game to its
   end. *)
RejoinNext ==
  Connect \/ Join \/ Rejoin \/ StartGame \/ MarketBid \/ BuyCell \/ AlarmFires \/ Elapse

RejoinSpec == ObsInit /\ [][RejoinNext]_vars

----------------------------------------------------------------------------
(* Claims *)

(* the phase each player action belongs to *)
PhaseOf ==
  [t \in {"join", "start_game"} \cup GameMessages |->
     CASE t \in {"join", "start_game"} -> "lobby"
       [] t \in {"market_bid", "market_skip", "market_recycle"} -> "market_phase"
       [] t \in {"buy_cell", "buy_cell_cancel", "buy_done"} -> "buy_phase"
       [] t = "auction_bid" -> "auction"
       [] OTHER -> "path_phase"]

WrongPhase(msg) == msg.type \in DOMAIN PhaseOf /\ config.phase # PhaseOf[msg.type]

(* C1: in every round the phases occur in the fixed order and only auction may
   be skipped: path_phase is never entered in a round in which buy_phase was
   not entered first. *)
C1_BuyBeforePath ==
  "path_phase" \in Range(roundPhases) => "buy_phase" \in Range(roundPhases)

(* C3: a player action received in a phase other than the one it belongs to
   leaves the stored room state (config, players, grid, pending actions,
   submitted paths, winner) exactly as it was. *)
C3_WrongPhaseNoChange == [][WrongPhase(trace'.msg) => storage' = storage]_vars

(* a joined player's market_bid has been handled during an auction *)
C3_Witness ==
  /\ trace.ws \in DOMAIN sockets
  /\ sockets[trace.ws].playerId # NoPlayer
  /\ trace.msg.type = "market_bid"
  /\ trace.phase = "auction"

(* a message the room turns away by validation, as the claim lists them *)
Rejected(msg, ws) ==
  LET pid == sockets[ws].playerId
  IN \/ WrongPhase(msg)
     \/ /\ msg.type = "market_bid" /\ config.phase = "market_phase" /\ pid # NoPlayer
        /\ \/ msg.dieIndex < 0 \/ msg.dieIndex >= Len(config.marketDice)
           \/ JsLess(msg.amount, config.marketMinPrice)
     \/ /\ msg.type = "auction_bid" /\ config.phase = "auction" /\ pid # NoPlayer
        /\ \/ msg.conflictId \notin DOMAIN pending.conflicts
           \/ pid \notin Range(pending.conflicts[msg.conflictId].playerIds)
     \/ /\ msg.type = "path" /\ config.phase = "path_phase" /\ pid # NoPlayer
        /\ \/ msg.producerId \notin DOMAIN grid
           \/ ~OwnsCell(grid[msg.producerId], pid, "producer")
           \/ msg.sellerId \notin DOMAIN grid
           \/ ~OwnsCell(grid[msg.sellerId], pid, "seller")

ErrorOnlyTo(sent, ws) ==
  /\ \E i \in DOMAIN sent : sent[i].type = "error" /\ sent[i].to = ws
  /\ \A i \in DOMAIN sent : sent[i].type = "error" => sent[i].to = ws

(* C4: every action the room rejects by validation results in an error message
   sent to the submitting connection and to no other connection. *)
C4_ErrorToSubmitter ==
  [][Rejected(trace'.msg, trace'.ws) => ErrorOnlyTo(trace'.sent, trace'.ws)]_vars

(* C2: once start_game has succeeded, every timed phase is eventually left and
   the room eventually reaches phase ended, the timer alone driving it. *)
C2_ReachesEnded == (config.phase \in TimedPhases) ~> (config.phase = "ended")

(* the room has ended after its last round without any player message accepted *)
C2_Witness ==
  /\ config.phase = "ended"
  /\ config.roundCount = MaxRounds + 1
  /\ config.roundIndex = config.roundCount
  /\ roundPhases = <<"round_start", "market_phase", "buy_phase", "path_phase",
                     "round_end", "ended">>

(* The market resolution the last step ran, in the claims' terms: the bids are
   the entries of the pending market map before it, a bid being a number. *)
MarketResolved == res.phase = "market_phase"

BidsFor(d) == {b \in Range(res.pe.market) : b.dieIndex = d /\ b.amount # NaN}

TopBids(d) == {b \in BidsFor(d) : \A c \in BidsFor(d) : c.amount <= b.amount}

(* the room before and after the resolution's turn for die index d *)
TurnOf(d) == CHOOSE i \in DOMAIN res.keys : res.keys[i] = d

Before(d) == res.steps[TurnOf(d)]

After(d) == res.steps[TurnOf(d) + 1]

DieIndexes == 0..(Len(res.md) - 1)

(* die index d has a unique highest bid and its bidder can pay it *)
SoleSolventTop(d) ==
  /\ Cardinality(TopBids(d)) = 1
  /\ \A b \in TopBids(d) : res.pl[b.playerId].money >= b.amount

RECURSIVE Ascending(_)
Ascending(S) ==
  IF S = {} THEN <<>>
  ELSE LET m == CHOOSE x \in S : \A y \in S : x <= y IN <<m>> \o Ascending(S \ {m})

(* the dice of pool md at the positions in S, in pool order *)
Pick(md, S) == [i \in 1..Cardinality(S) |-> md[Ascending(S)[i]]]

(* C5: at market_phase resolution, for each die index with a unique highest bid
   whose bidder holds at least the bid, the bidder pays exactly the bid and gets
   exactly that die, no other player's money or dice change in that turn, and
   the die is not in the pool carried into the next phase that is not auction. *)
C5_SoleHighestBidWins ==
  /\ MarketResolved =>
       \A d \in DieIndexes : SoleSolventTop(d) =>
         \A b \in TopBids(d) :
           /\ d \in Range(res.keys)
           /\ After(d).pl[b.playerId].money = Before(d).pl[b.playerId].money - b.amount
           /\ Before(d).pl[b.playerId].money = res.pl[b.playerId].money
           /\ After(d).pl[b.playerId].dice =
                Append(Before(d).pl[b.playerId].dice, res.md[d + 1])
           /\ players[b.playerId].money = res.pl[b.playerId].money - b.amount
           /\ players[b.playerId].dice = Append(res.pl[b.playerId].dice, res.md[d + 1])
           /\ \A q \in DOMAIN res.pl : q # b.playerId => After(d).pl[q] = Before(d).pl[q]
           /\ IF config.phase = "auction"
                THEN config.marketDice[d + 1] = -1
                ELSE \E S \in SUBSET (DOMAIN res.md \ {d + 1}) :
                       config.marketDice = Pick(res.md, S)
  /\ config.phase # "auction" => -1 \notin Range(config.marketDice)
  /\ res.phase = "auction" =>
       \E S \in SUBSET {p \in DOMAIN res.md : res.md[p] # -1} :
         config.marketDice = Pick(res.md, S)

(* a die went to its sole highest bidder, who outbid another player on it *)
C5_Witness ==
  /\ MarketResolved
  /\ \E d \in DieIndexes :
       /\ SoleSolventTop(d)
       /\ Cardinality(BidsFor(d)) >= 2
       /\ \E b \in TopBids(d) : b.amount > 0 /\ Len(players[b.playerId].dice) > Len(res.pl[b.playerId].dice)

(* C6: at market_phase resolution, when two or more players tie for the highest
   bid on a die index, the die is awarded to nobody, no money is deducted for
   it, a market conflict is recorded whose contenders are exactly the players
   tied at the highest bid, and the room goes to auction, not buy_phase. *)
C6_TieBecomesConflict ==
  MarketResolved =>
    \A d \in DieIndexes : Cardinality(TopBids(d)) >= 2 =>
      /\ d \in Range(res.keys)
      /\ After(d).pl = Before(d).pl
      /\ After(d).md = Before(d).md
      /\ config.marketDice[d + 1] = res.md[d + 1]
      /\ \A b \in BidsFor(d) : players[b.playerId] = res.pl[b.playerId]
      /\ \E i \in DOMAIN pending.conflicts :
           LET c == pending.conflicts[i]
           IN /\ c.type = "market" /\ c.ref = d
              /\ Range(c.playerIds) = {b.playerId : b \in TopBids(d)}
              /\ Len(c.playerIds) = Cardinality(TopBids(d))
              /\ \A j \in DOMAIN pending.conflicts :
                   pending.conflicts[j].type = "market" /\ pending.conflicts[j].ref = d => j = i
      /\ config.phase = "auction"

(* two players tied at the top of a die index a third player bid less on *)
C6_Witness ==
  /\ MarketResolved
  /\ \E d \in DieIndexes :
       /\ Cardinality(TopBids(d)) = 2
       /\ Cardinality(BidsFor(d)) = 3

(* The buy_phase resolution the last step ran.  A player gains a cell when the
   resolution adds an owner entry of theirs to it. *)
BuyResolved == res.phase = "buy_phase"

NewOwners(c) == SubSeq(res.gr2[c].owners, Len(res.gr[c].owners) + 1, Len(res.gr2[c].owners))

Gained(p, v) ==
  {c \in DOMAIN res.gr :
     res.gr[c].diceValue = v /\ \E i \in DOMAIN NewOwners(c) : NewOwners(c)[i].playerId = p}

DieValues == 1..6

(* the cells player p has queued when the resolution starts *)
QueueOf(p) ==
  UNION {{e.acts[i].cellId : i \in DOMAIN e.acts} : e \in {x \in Range(res.pe.buy) : x.playerId = p}}

Contested(c) == \E p, q \in DOMAIN res.pl : p # q /\ c \in QueueOf(p) /\ c \in QueueOf(q)

(* the value-v cells player p asked for with buy_cell this phase, in the order asked *)
AskedFor(p, v) ==
  Map(SelectSeq(asked.log, LAMBDA a :
        /\ a.playerId = p /\ a.type = "buy_cell"
        /\ a.cellId \in DOMAIN res.gr
        /\ ~res.gr[a.cellId].blocked
        /\ res.gr[a.cellId].diceValue = v),
      LAMBDA a : a.cellId)

(* player p asked for each cell once and cancelled none *)
AskedOnce(p) ==
  \A i, j \in DOMAIN asked.log :
    asked.log[i].playerId = p =>
      /\ asked.log[i].type = "buy_cell"
      /\ (asked.log[j].playerId = p /\ asked.log[j].cellId = asked.log[i].cellId) => i = j

Earliest(claims, n) == SubSeq(claims, 1, Min(n, Len(claims)))

(* C8: at buy_phase resolution, for every player and die value v, the
   uncontested value-v cells committed to the player are at most the v dice the
   player holds, each committed cell takes exactly one v die (and nothing else)
   from the hand, and of the value-v cells a player asked for, the ones
   committed are the uncontested ones among the earliest asked, as many as the
   player holds v dice. *)
C8_OneDiePerCommittedCell ==
  BuyResolved =>
    /\ \A p \in DOMAIN res.pl, v \in DieValues :
         /\ Cardinality(Gained(p, v)) <= DiceCount(res.pl[p].dice, v)
         /\ DiceCount(res.pl2[p].dice, v) =
              DiceCount(res.pl[p].dice, v) - Cardinality(Gained(p, v))
         /\ \A c \in Gained(p, v) : ~Contested(c)
         /\ AskedOnce(p) =>
              Gained(p, v) =
                {c \in Range(Earliest(AskedFor(p, v), DiceCount(res.pl[p].dice, v))) :
                   ~Contested(c)}
    /\ \A p \in DOMAIN res.pl : res.pl2[p].money = res.pl[p].money
    /\ \A i \in DOMAIN res.keys :
         LET p == res.keys[i].playerId
             v == res.gr[res.keys[i].cellId].diceValue
         IN /\ Len(res.steps[i + 1].pl[p].dice) = Len(res.steps[i].pl[p].dice) - 1
            /\ DiceCount(res.steps[i + 1].pl[p].dice, v) =
                 DiceCount(res.steps[i].pl[p].dice, v) - 1
            /\ \A q \in DOMAIN res.pl : q # p => res.steps[i + 1].pl[q] = res.steps[i].pl[q]

(* a player holding two dice of a value asked for three cells of it, and the
   resolution committed the first two *)
C8_Witness ==
  /\ BuyResolved
  /\ \E p \in DOMAIN res.pl, v \in DieValues :
       /\ AskedOnce(p)
       /\ DiceCount(res.pl[p].dice, v) = 2
       /\ Len(AskedFor(p, v)) = 3
       /\ Gained(p, v) = {AskedFor(p, v)[1], AskedFor(p, v)[2]}
       /\ Cardinality(Gained(p, v)) = 2

(* The auction resolution the last step ran.  Conflict i is resolved between
   res.steps[i] and res.steps[i + 1]; a contender who sent no bid offers 0. *)
AuctionResolved == res.phase = "auction"

Offer(i, p) ==
  LET sent == {e \in res.pe.auctionBids : e.conflictId = i /\ e.playerId = p}
  IN IF sent = {} THEN 0 ELSE (CHOOSE e \in sent : TRUE).amount

Contenders(i) == Range(res.conflicts[i].playerIds)

TopOffer(i) ==
  CHOOSE t \in {0} \cup {Offer(i, p) : p \in Contenders(i)} :
    \A p \in Contenders(i) : Offer(i, p) <= t

(* the role player p queued for cell c during buy_phase *)
RolesQueued(p, c) ==
  UNION {{e.acts[k].role : k \in {j \in DOMAIN e.acts : e.acts[j].cellId = c}} :
         e \in {x \in Range(res.pe.buy) : x.playerId = p}}

(* the owner entries conflict i adds to cell c *)
AddedOwners(i, c) ==
  SubSeq(res.steps[i + 1].gr[c].owners,
         Len(res.steps[i].gr[c].owners) + 1, Len(res.steps[i + 1].gr[c].owners))

EntriesOf(i, c, p) == {k \in DOMAIN AddedOwners(i, c) : AddedOwners(i, c)[k].playerId = p}

(* contender p of cell conflict i offers the highest bid, can pay it, and
   holds a die of the cell's value when the conflict is resolved *)
CellWinner(i, p) ==
  LET c == res.conflicts[i].ref
  IN /\ Offer(i, p) = TopOffer(i)
     /\ res.steps[i].pl[p].money >= TopOffer(i)
     /\ DiceCount(res.steps[i].pl[p].dice, res.gr[c].diceValue) > 0

(* C9: at auction resolution of a cell conflict, every contender who offers the
   highest bid, holds that much money and holds a die of the cell's value gains
   one owner entry on the cell in the role they queued, pays exactly the
   highest bid and loses exactly one such die; a contender who offers less
   gains no owner entry and pays nothing. *)
C9_CellAuctionWinners ==
  AuctionResolved =>
    \A i \in DOMAIN res.conflicts : res.conflicts[i].type = "cell" =>
      LET c == res.conflicts[i].ref
          v == res.gr[c].diceValue
          before == res.steps[i]
          after == res.steps[i + 1]
      IN \A p \in Contenders(i) :
           /\ CellWinner(i, p) =>
                /\ Cardinality(EntriesOf(i, c, p)) = 1
                /\ \A k \in EntriesOf(i, c, p) : RolesQueued(p, c) = {AddedOwners(i, c)[k].role}
                /\ after.pl[p].money = before.pl[p].money - TopOffer(i)
                /\ Len(after.pl[p].dice) = Len(before.pl[p].dice) - 1
                /\ DiceCount(after.pl[p].dice, v) = DiceCount(before.pl[p].dice, v) - 1
                /\ \E k \in DOMAIN grid[c].owners : grid[c].owners[k].playerId = p
           /\ Offer(i, p) < TopOffer(i) =>
                /\ EntriesOf(i, c, p) = {}
                /\ after.pl[p] = before.pl[p]

(* two contenders tied at the highest bid became co-owners of the cell in
   different roles, each paying the bid, and a third who offered less did not *)
C9_Witness ==
  /\ AuctionResolved
  /\ \E i \in DOMAIN res.conflicts :
       /\ res.conflicts[i].type = "cell"
       /\ TopOffer(i) > 0
       /\ \E p, q, r \in Contenders(i) :
            /\ p # q /\ CellWinner(i, p) /\ CellWinner(i, q)
            /\ RolesQueued(p, res.conflicts[i].ref) # RolesQueued(q, res.conflicts[i].ref)
            /\ players[p].money = res.pl[p].money - TopOffer(i)
            /\ players[q].money = res.pl[q].money - TopOffer(i)
            /\ Offer(i, r) < TopOffer(i)

(* the first contender of market conflict i who offers the highest bid *)
Designated(i) ==
  LET ids == res.conflicts[i].playerIds
      k == CHOOSE j \in DOMAIN ids :
             /\ Offer(i, ids[j]) = TopOffer(i)
             /\ \A h \in 1..(j - 1) : Offer(i, ids[h]) # TopOffer(i)
  IN ids[k]

(* C10: at auction resolution of a market conflict, the die goes to at most one
   player: to the designated winner, the first contender who offers the
   highest bid (a contender without a bid offering 0), who pays exactly that
   bid, if they hold that much money; to nobody if they do not. *)
C10_MarketAuctionWinner ==
  AuctionResolved =>
    \A i \in DOMAIN res.conflicts : res.conflicts[i].type = "market" =>
      LET d == res.conflicts[i].ref
          before == res.steps[i]
          after == res.steps[i + 1]
          w == Designated(i)
      IN /\ Contenders(i) # {}
         /\ IF before.pl[w].money >= TopOffer(i)
              THEN /\ after.pl[w].money = before.pl[w].money - TopOffer(i)
                   /\ after.pl[w].dice = Append(before.pl[w].dice, before.md[d + 1])
                   /\ before.md[d + 1] # -1 /\ after.md[d + 1] = -1
                   /\ \A q \in DOMAIN res.pl : q # w => after.pl[q] = before.pl[q]
              ELSE after = before
         /\ Cardinality({q \in DOMAIN res.pl : after.pl[q].dice # before.pl[q].dice}) <= 1

(* the die of a market conflict went to a player who outbid the first
   contender, and who paid the bid *)
C10_Witness ==
  /\ AuctionResolved
  /\ \E i \in DOMAIN res.conflicts :
       /\ res.conflicts[i].type = "market"
       /\ TopOffer(i) > 0
       /\ Designated(i) # res.conflicts[i].playerIds[1]
       /\ res.steps[i + 1].pl[Designated(i)].money =
            res.steps[i].pl[Designated(i)].money - TopOffer(i)
       /\ Len(res.steps[i + 1].pl[Designated(i)].dice) >
            Len(res.steps[i].pl[Designated(i)].dice)

(* C7: whenever the phase is auction, the conflict list is non-empty and every
   conflict in it names at least two distinct contending players. *)
C7_AuctionHasContention ==
  config.phase = "auction" =>
    /\ Len(pending.conflicts) > 0
    /\ \A i \in DOMAIN pending.conflicts :
         Cardinality(Range(pending.conflicts[i].playerIds)) >= 2

(* the auction bids contender p sent for conflict i, as positions of the record *)
BidsSent(i, p) ==
  {k \in DOMAIN asked.log :
     /\ asked.log[k].type = "auction_bid"
     /\ asked.log[k].conflictId = i
     /\ asked.log[k].playerId = p}

(* when contender p of conflict i first sent the bid that stands at resolution *)
StandingSince(i, p) ==
  CHOOSE k \in BidsSent(i, p) :
    /\ \A h \in BidsSent(i, p) : h >= k => asked.log[h].amount = Offer(i, p)
    /\ \A j \in BidsSent(i, p) :
         (\A h \in BidsSent(i, p) : h >= j => asked.log[h].amount = Offer(i, p)) => k <= j

(* the contenders of conflict i whose submitted bid is the highest *)
Tied(i) == {p \in Contenders(i) : Offer(i, p) = TopOffer(i) /\ BidsSent(i, p) # {}}

(* C11: at auction resolution of a market conflict whose highest bid was
   submitted by several contenders, the die goes to the one of them whose bid of
   that amount was submitted earliest, and to no other contender. *)
C11_EarliestTopBidWins ==
  AuctionResolved =>
    \A i \in DOMAIN res.conflicts :
      (res.conflicts[i].type = "market" /\ Cardinality(Tied(i)) >= 2) =>
        \A q \in Tied(i) :
          (/\ \A p \in Tied(i) : StandingSince(i, q) <= StandingSince(i, p)
           /\ res.steps[i].pl[q].money >= TopOffer(i)) =>
             /\ Len(res.steps[i + 1].pl[q].dice) = Len(res.steps[i].pl[q].dice) + 1
             /\ \A p \in Contenders(i) \ {q} : res.steps[i + 1].pl[p] = res.steps[i].pl[p]


(* the interior positions of path e.path whose hex is a cell with at least one
   owner other than the submitter *)
EnemyTerritory(gr, e) ==
  {k \in 2..(Len(e.path) - 1) :
     \E c \in DOMAIN gr :
       /\ <<gr[c].q, gr[c].r>> = e.path[k]
       /\ \E o \in Range(gr[c].owners) : o.playerId # e.playerId}

Clamp(x, lo, hi) == IF x < lo THEN lo ELSE IF x > hi THEN hi ELSE x

Revenue(gr, e) ==
  gr[e.producerId].producer *
    Clamp(gr[e.sellerId].seller - (Len(e.path) - 1) - 2 * Cardinality(EnemyTerritory(gr, e)),
          0, 1)

(* C12: every path the room accepts is stored with the revenue
   floor(producer.producer * clamp(seller.seller - pathLength - 2 * enemyTerritory, 0, 1)),
   pathLength being the number of hexes less one and enemyTerritory the number
   of interior hexes with an owner other than the submitter; the revenue is 0
   or the producer value. *)
C12_StoredRevenue ==
  [][\A e \in submittedPaths' \ submittedPaths :
       /\ e.revenue = Revenue(grid, e)
       /\ e.revenue \in {0, grid[e.producerId].producer}]_vars

(* a path through another player's hex is stored with revenue 0 where the same
   path through no enemy territory would earn the producer value *)
C12_Witness ==
  \E e \in submittedPaths :
    /\ config.phase = "path_phase"
    /\ EnemyTerritory(grid, e) # {}
    /\ grid[e.sellerId].seller - (Len(e.path) - 1) >= 1
    /\ grid[e.producerId].producer > 0
    /\ e.revenue = 0


(* the cell of the board at hex h, 0 when there is none *)
CellOn(h) ==
  IF \E c \in DOMAIN grid : <<grid[c].q, grid[c].r>> = h
    THEN CHOOSE c \in DOMAIN grid : <<grid[c].q, grid[c].r>> = h
    ELSE 0

Adjacent(a, b) ==
  <<b[1] - a[1], b[2] - a[2]>> \in {<<1, 0>>, <<1, -1>>, <<0, -1>>, <<-1, 0>>, <<-1, 1>>, <<0, 1>>}

HoldsAs(c, p, role) ==
  c \in DOMAIN grid /\ \E o \in Range(grid[c].owners) : o.playerId = p /\ o.role = role

(* the conditions under which a path message m of player p is accepted *)
Acceptable(m, p) ==
  /\ config.phase = "path_phase"
  /\ p # NoPlayer
  /\ HoldsAs(m.producerId, p, "producer")
  /\ HoldsAs(m.sellerId, p, "seller")
  /\ Len(m.path) >= 2
  /\ m.path[1] = <<grid[m.producerId].q, grid[m.producerId].r>>
  /\ m.path[Len(m.path)] = <<grid[m.sellerId].q, grid[m.sellerId].r>>
  /\ \A k \in 1..(Len(m.path) - 1) : Adjacent(m.path[k], m.path[k + 1])
  /\ \A k \in 2..Len(m.path) : CellOn(m.path[k]) # 0 => ~grid[CellOn(m.path[k])].blocked

(* C13: a path message is accepted only in path_phase, from a sender who owns
   the named producer cell as producer and the named seller cell as seller,
   with at least two hexes from the producer's hex to the seller's, consecutive
   hexes neighbours and no hex after the first blocked; any other path message
   leaves the stored paths and the ready flags as they were. *)
C13_PathAcceptedOnlyIfValid ==
  [][trace'.msg.type = "path" =>
       \/ Acceptable(trace'.msg, sockets[trace'.ws].playerId)
       \/ /\ submittedPaths' = submittedPaths
          /\ pending'.pathReady = pending.pathReady]_vars

(* a three-hex path was accepted and stored, and the next path message of the
   same player, which steps onto a blocked hex, left it in place *)
C13_Witness ==
  /\ trace.msg.type = "path"
  /\ config.phase = "path_phase"
  /\ \E k \in 2..Len(trace.msg.path) :
       CellOn(trace.msg.path[k]) # 0 /\ grid[CellOn(trace.msg.path[k])].blocked
  /\ \E e \in submittedPaths :
       /\ e.playerId = sockets[trace.ws].playerId
       /\ Len(e.path) = 3
       /\ e.path # trace.msg.path


(* the step in which the round_start timer fires *)
RoundStarts == config.phase = "round_start" /\ config'.phase = "market_phase"

Lowered(v) == IF v > 1 THEN v - 1 ELSE v

(* C14: when round_start is resolved, the producer and the seller value of every
   owned cell each go down by exactly 1, a value of 1 staying 1; an unowned
   cell keeps its values; no owner entry is added or removed. *)
C14_OwnedCellsAge ==
  [][RoundStarts =>
       /\ DOMAIN grid' = DOMAIN grid
       /\ \A c \in DOMAIN grid :
            /\ grid'[c].owners = grid[c].owners
            /\ grid[c].owners # <<>> =>
                 /\ grid'[c].producer = Lowered(grid[c].producer)
                 /\ grid'[c].seller = Lowered(grid[c].seller)
            /\ grid[c].owners = <<>> => grid'[c] = grid[c]]_vars

(* in the market_phase of the second round an owned cell has lost 1 of each
   value, another owned cell still has its seller value of 1, and an unowned
   cell has the values it was generated with *)
C14_Witness ==
  /\ config.phase = "market_phase"
  /\ config.roundIndex = 1
  /\ \E c, d, u \in DOMAIN grid :
       /\ grid[c].owners # <<>> /\ grid[c].producer = 8 /\ grid[c].seller = 8
       /\ grid[d].owners # <<>> /\ grid[d].seller = 1 /\ grid[d].producer = 4
       /\ grid[u].owners = <<>> /\ ~grid[u].blocked
       /\ grid[u].producer = 4 /\ grid[u].seller = 3


IsPrefix(s, t) == Len(s) <= Len(t) /\ SubSeq(t, 1, Len(s)) = s

(* C15: from start_game until the room is cleaned up, the owner list of every
   cell in a later state extends its owner list in the earlier state: no owner
   entry is removed, changed or reordered. *)
C15_OwnershipPermanent ==
  [][(grid # <<>> /\ config' # NoConfig) =>
       /\ DOMAIN grid' = DOMAIN grid
       /\ \A c \in DOMAIN grid : IsPrefix(grid[c].owners, grid'[c].owners)]_vars

(* in the second round a cell owned since the first round has a second owner
   entry after the first *)
C15_Witness ==
  /\ config.roundIndex = 1
  /\ \E c \in DOMAIN grid :
       /\ Len(grid[c].owners) >= 2
       /\ grid[c].producer < 9


(* C16: a blocked cell has no owner, is in no player's queued buy intents and is
   the subject of no cell conflict. *)
C16_BlockedCellsStayOut ==
  \A c \in DOMAIN grid :
    grid[c].blocked =>
      /\ grid[c].owners = <<>>
      /\ \A e \in Range(pending.buy) : \A k \in DOMAIN e.acts : e.acts[k].cellId # c
      /\ \A x \in Range(pending.conflicts) : ~(x.type = "cell" /\ x.ref = c)

(* in buy_phase a player holding a die of a blocked cell's value asked for that
   cell, while another intent is queued *)
C16_Witness ==
  /\ trace.msg.type = "buy_cell"
  /\ trace.phase = "buy_phase"
  /\ config.phase = "buy_phase"
  /\ sockets[trace.ws].playerId # NoPlayer
  /\ trace.msg.cellId \in DOMAIN grid
  /\ grid[trace.msg.cellId].blocked
  /\ grid[trace.msg.cellId].diceValue \in Range(players[sockets[trace.ws].playerId].dice)
  /\ pending.buy # <<>>


(* the cells on which player p has an owner entry *)
CellsOf(p) == {c \in DOMAIN grid : \E o \in Range(grid[c].owners) : o.playerId = p}

(* C17: once the game has ended, the recorded winner is a player with the most
   money and, among the players with that much money, one with the most cells
   carrying an owner entry of theirs. *)
C17_WinnerHasMostMoneyThenCells ==
  config.phase = "ended" =>
    /\ winnerId \in DOMAIN players
    /\ \A p \in DOMAIN players :
         /\ players[p].money <= players[winnerId].money
         /\ players[p].money = players[winnerId].money =>
              Cardinality(CellsOf(p)) <= Cardinality(CellsOf(winnerId))

(* the game ended with the first player and a later one level on money, and
   the later one, who owns more cells, is the winner *)
C17_Witness ==
  /\ config.phase = "ended"
  /\ winnerId \in DOMAIN players
  /\ winnerId # 1
  /\ players[winnerId].money = players[1].money
  /\ Cardinality(CellsOf(winnerId)) > Cardinality(CellsOf(1))
  /\ Cardinality(CellsOf(1)) > 0


(* C18: a room created with roundCount >= 1 plays exactly roundCount rounds:
   roundIndex never exceeds roundCount; round_end leads to ended exactly when
   the round just finished makes roundIndex equal to roundCount, and otherwise
   adds 1 to roundIndex and returns to round_start; in ended roundIndex equals
   roundCount. *)
C18_ExactlyRoundCountRounds ==
  [][config.roundCount >= 1 =>
       /\ config'.roundIndex <= config'.roundCount
       /\ (config.phase = "round_end" /\ config'.phase # "round_end") =>
            IF config.roundIndex + 1 = config.roundCount
              THEN config'.phase = "ended" /\ config'.roundIndex = config.roundCount
              ELSE /\ config'.phase = "round_start"
                   /\ config'.roundIndex = config.roundIndex + 1
       /\ config'.phase = "ended" =>
            /\ config'.roundIndex = config'.roundCount
            /\ config.phase \in {"round_end", "ended"}
       /\ config.phase # "round_end" =>
            config'.roundIndex = config.roundIndex \/ config' = NoConfig]_vars

(* a game of two rounds has ended after its second round, which began when
   the first round_end added 1 to roundIndex *)
C18_Witness ==
  /\ config.phase = "ended"
  /\ config.roundCount = 2
  /\ config.roundIndex = 2
  /\ roundPhases[Len(roundPhases)] = "ended"
  /\ roundPhases[1] = "round_start"


(* the room with the pending market bid of player b, if any, naming die d and amount a *)
WithMarketBid(st, b, d, a) ==
  [st EXCEPT !.pe.market =
     [i \in DOMAIN @ |-> IF @[i].playerId = b THEN [@[i] EXCEPT !.dieIndex = d, !.amount = a]
                         ELSE @[i]]]

(* the room with every pending auction bid of player b set to amount a *)
WithAuctionBids(st, b, a) ==
  [st EXCEPT !.pe.auctionBids =
     {IF e.playerId = b THEN [e EXCEPT !.amount = a] ELSE e : e \in @}]

(* the room with the submitted path of player b, if any, replaced by path with
   the given revenue *)
WithPath(st, b, path, revenue) ==
  [st EXCEPT !.sp =
     {IF e.playerId = b THEN [e EXCEPT !.path = path, !.revenue = revenue] ELSE e : e \in @}]

(* the rooms that differ from the present one only in the values of player b's
   pending bids or submitted path *)
Disguised(b) ==
  {WithMarketBid(Cur, b, d, a) : d \in 0..MaxPlayers, a \in MarketAmounts}
    \cup {WithAuctionBids(Cur, b, a) : a \in BidAmounts}
    \cup {WithPath(Cur, b, path, revenue) : path \in {p \in Paths : Len(p) = 2}, revenue \in {0, 9}}

(* C19: the state message for a connection bound to player A is the same in any
   two rooms that differ only in the values of another player B's pending
   market bid, auction bids or submitted path: it carries none of them. *)
C19_OthersBidsNotRevealed ==
  \A ws \in DOMAIN sockets : \A b \in DOMAIN players :
    (sockets[ws].playerId # NoPlayer /\ sockets[ws].playerId # b) =>
      \A other \in Disguised(b) : StateFor(other, ws) = StateFor(Cur, ws)

(* in market_phase player A's connection is told that B has acted while B's bid
   is pending and could be any other *)
C19_Witness ==
  /\ config.phase = "market_phase"
  /\ \E ws \in DOMAIN sockets : \E b \in DOMAIN players :
       /\ sockets[ws].open
       /\ sockets[ws].playerId \notin {NoPlayer, b}
       /\ \E e \in Range(pending.market) : e.playerId = b /\ e.amount > 0
       /\ StateFor(Cur, ws).base.selectionStatus[b]
       /\ Disguised(b) # {Cur}


(* the types of the messages a handler sent to websocket ws, in order *)
SentTo(sent, ws) ==
  Map(SelectSeq(sent, LAMBDA m : m.to = ws), LAMBDA m : m.type)

(* what the room stores for player p and has not yet resolved *)
PrivateData(pe, sp, p) ==
  [market |-> {[dieIndex |-> e.dieIndex, amount |-> e.amount] :
                 e \in {x \in Range(pe.market) : x.playerId = p}},
   auction |-> {[conflictId |-> e.conflictId, amount |-> e.amount] :
                  e \in {x \in pe.auctionBids : x.playerId = p}},
   path |-> {[producerId |-> e.producerId, sellerId |-> e.sellerId, path |-> e.path,
              revenue |-> e.revenue] : e \in {x \in sp : x.playerId = p}}]

(* the private data in the state message of room st for websocket ws *)
PrivateIn(st, ws) ==
  [market |-> StateFor(st, ws).myMarketBid,
   auction |-> StateFor(st, ws).myAuctionBids,
   path |-> StateFor(st, ws).mySubmittedPath]

(* C20: a rejoin naming a player of the room succeeds in every phase: the
   websocket is bound to that player and is sent joined and then a state
   message with that player's private pending data, and no player is added or
   changed; a rejoin naming an unknown player outside the lobby is answered
   with an error and binds nothing. *)
C20_RejoinBindsKnownPlayer ==
  [][trace'.msg.type = "rejoin" =>
       IF trace'.msg.playerId \in DOMAIN players
         THEN /\ sockets'[trace'.ws].playerId = trace'.msg.playerId
              /\ SentTo(trace'.sent, trace'.ws) = <<"joined", "state">>
              /\ PrivateIn(Cur', trace'.ws)
                   = PrivateData(pending', submittedPaths', trace'.msg.playerId)
              /\ players' = players
              /\ config'.phase = config.phase
         ELSE config.phase # "lobby" =>
                /\ sockets' = sockets
                /\ SentTo(trace'.sent, trace'.ws) = <<"error", "state">>
                /\ players' = players]_vars

(* in market_phase a websocket has just rejoined as a player whose market bid
   is pending, and the state message for it carries that bid *)
C20_Witness ==
  /\ trace.msg.type = "rejoin"
  /\ trace.phase = "market_phase"
  /\ config.phase = "market_phase"
  /\ sockets[trace.ws].playerId = trace.msg.playerId
  /\ \A ws \in DOMAIN sockets : sockets[ws].playerId = trace.msg.playerId
  /\ SentTo(trace.sent, trace.ws) = <<"joined", "state">>
  /\ PrivateIn(Cur, trace.ws).market # {}

(* C21: start_game changes the phase only in lobby with at least 2 players: it
   then sets every player's money to 10, gives every player exactly 3 dice and
   moves to round_start with a timer armed; with fewer than 2 players or
   outside lobby it sends an error to the sender and leaves the room state
   unchanged. *)
C21_StartGameNeedsTwoInLobby ==
  [][trace'.msg.type = "start_game" =>
       IF config.phase = "lobby" /\ Len(players) >= 2
         THEN /\ config'.phase = "round_start"
              /\ Len(players') = Len(players)
              /\ \A p \in DOMAIN players' :
                   players'[p].money = 10 /\ Len(players'[p].dice) = 3
              /\ alarmAt' > 0
              /\ alarmAt' = config'.phaseEndsAt
         ELSE /\ storage' = storage
              /\ alarmAt' = alarmAt
              /\ sockets' = sockets
              /\ SentTo(trace'.sent, trace'.ws) = <<"error">>]_vars

(* two players joined in the lobby and start_game has just moved the room to
   round_start with the hands dealt *)
C21_Witness ==
  /\ trace.msg.type = "start_game"
  /\ trace.phase = "lobby"
  /\ config.phase = "round_start"
  /\ Len(players) = 2
  /\ \A p \in DOMAIN players : players[p].money = 10 /\ Len(players[p].dice) = 3
  /\ alarmAt > 0


(* the revenue of the last path player p had accepted since the last round_start
   was resolved, 0 when there is none *)
RevenueThisRound(p) ==
  LET mine == SelectSeq(asked.log, LAMBDA a : a.type = "path" /\ a.playerId = p)
  IN IF mine = <<>> THEN 0 ELSE mine[Len(mine)].revenue

(* C22: when the round_start that opens the next round is resolved, each
   player's money goes up by exactly 1 plus the revenue of the path the player
   submitted in the round before, and by exactly 1 when the player submitted
   none in that round: a path of an earlier round is not paid again. *)
C22_PaysLastRoundsPathOnce ==
  [][RoundStarts =>
       \A p \in DOMAIN players :
         players'[p].money = players[p].money + 1 + RevenueThisRound(p)]_vars


(* the game ends: round_end is resolved into ended and the winner is picked *)
GameEnds == config.phase = "round_end" /\ config'.phase = "ended"

(* C23: every accepted path is paid at a later round_start, in every round
   including the last, so its revenue is part of the money the winner is
   picked by: when the game ends, no accepted path with revenue is still
   waiting for its payment. *)
C23_EveryPathPaidBeforeTheEnd ==
  [][GameEnds =>
       \A i \in DOMAIN asked.log :
         asked.log[i].type = "path" => asked.log[i].revenue = 0]_vars


(* the messages by which a player signals being done with a phase *)
FinalSignals == {"market_bid", "market_skip", "buy_done", "path_done"}

(* The trigger handled in this step repeats the one that has just resolved a
   phase: alarm() runs twice in a row, a tick follows the alarm, or a final
   signal follows the final signal of the same kind that ended the phase. *)
SecondTrigger ==
  \/ trace.msg.type = "alarm" /\ trace'.msg.type \in {"alarm", "tick"}
  \/ /\ trace.msg.type \in FinalSignals
     /\ trace.phase # config.phase
     /\ trace'.msg.type = trace.msg.type

(* C24: resolving a phase is idempotent per deadline: a second trigger for the
   same deadline or the same all-players-done signal (the timer firing twice,
   a tick after the timer fired, two final signals back to back) changes
   nothing in the room. *)
C24_SecondTriggerChangesNothing ==
  [][SecondTrigger => storage' = storage /\ alarmAt' = alarmAt]_vars


(* C25: in every phase from round_start to ended exactly one wake-up is armed
   and its time is the config's phaseEndsAt; in the lobby no wake-up is armed
   and phaseEndsAt is absent; a wake-up armed on a phase change replaces the
   one before, also when player signals end the phase early. *)
C25_OneAlarmAtPhaseEnd ==
  /\ config.phase \in TimedPhases \cup {"ended"} =>
       alarmAt # NoTime /\ alarmAt = config.phaseEndsAt
  /\ config.phase = "lobby" => alarmAt = NoTime /\ config.phaseEndsAt = NoTime

(* the last market signal has ended market_phase before its deadline and the
   wake-up is the one of buy_phase *)
C25_Witness ==
  /\ trace.msg.type \in {"market_bid", "market_skip"}
  /\ trace.phase = "market_phase"
  /\ config.phase = "buy_phase"
  /\ alarmAt = BUY_DURATION_MS
  /\ config.phaseEndsAt = BUY_DURATION_MS


(* the wake-up is delivered in phase ended, the cleanup deadline reached *)
CleanupDue ==
  /\ config.phase = "ended"
  /\ config.phaseEndsAt = 0
  /\ alarmAt = 0
  /\ alarmAt' = NoTime

(* C26: when the wake-up fires in phase ended at or after the cleanup deadline,
   the room's config, players, grid, pending actions, submitted paths and
   winner are deleted, the room is taken off the Lobby's list, and every open
   connection is closed; before the deadline no step in phase ended deletes
   any of them. *)
C26_CleanupAtDeadlineOnly ==
  [][config.phase = "ended" =>
       IF CleanupDue
         THEN /\ config' = NoConfig
              /\ players' = <<>>
              /\ grid' = <<>>
              /\ pending' = emptyPendingActions
              /\ submittedPaths' = {}
              /\ winnerId' = NoPlayer
              /\ RoomId \notin Range(lobby'.rooms)
              /\ OpenSockets(sockets') = {}
         ELSE /\ config'.phase = "ended"
              /\ <<players', grid', pending', submittedPaths', winnerId'>>
                   = <<players, grid, pending, submittedPaths, winnerId>>
              /\ lobby'.rooms = lobby.rooms]_vars

(* the room after its cleanup: the game had players and a winner, connections
   were made, and nothing is left *)
C26_Witness ==
  /\ config = NoConfig
  /\ players = <<>>
  /\ grid = <<>>
  /\ winnerId = NoPlayer
  /\ lobby.rooms = <<>>
  /\ sockets # <<>>
  /\ OpenSockets(sockets) = {}


(* every open websocket was sent a state message in this step *)
StateToAll ==
  \A w \in OpenSockets(sockets') :
    \E i \in DOMAIN trace'.sent : trace'.sent[i] = [to |-> w, type |-> "state"]

(* C27: a failing call to the Lobby never blocks the room: when taking the room
   off the Lobby's list fails during cleanup, every open connection is closed
   all the same, and when the player count cannot be pushed during a
   broadcast, every connection still gets the state message. *)
C27_LobbyFailureNeverBlocks ==
  [][lobby.down =>
       /\ CleanupDue => OpenSockets(sockets') = {}
       /\ trace'.msg.type = "tick" => StateToAll]_vars


(* C28: the pending actions are cleared at each phase boundary: right after a
   phase change they hold no bid, skip, queued buy, done flag, ready flag or
   auction bid of an earlier phase, other than the auto-ready flags computed
   on entering path_phase and the conflicts and queued buys taken into an
   auction. *)
C28_PendingClearedAtPhaseChange ==
  [][(config'.phase # config.phase /\ config'.phase \in TimedPhases \cup {"ended"}) =>
       /\ pending'.market = <<>>
       /\ pending'.marketSkip = {}
       /\ pending'.buyDone = {}
       /\ pending'.auctionBids = {}
       /\ pending'.pathReady \subseteq computeAutoPathReady(players', grid')
       /\ config'.phase # "auction" =>
            pending'.buy = <<>> /\ pending'.conflicts = <<>>]_vars


(* C29: during buy_phase a player may sell any cell they own for +1 money: a
   sell_cell message for a cell the sender owns removes the sender's ownership
   of the cell and raises the sender's money by exactly 1. *)
C29_SellCellGivesOne ==
  [][(/\ trace'.msg.type = "sell_cell"
      /\ config.phase = "buy_phase"
      /\ sockets[trace'.ws].playerId # NoPlayer
      /\ trace'.msg.cellId \in CellsOf(sockets[trace'.ws].playerId)) =>
       LET p == sockets[trace'.ws].playerId
       IN /\ \A o \in Range(grid'[trace'.msg.cellId].owners) : o.playerId # p
          /\ players'[p].money = players[p].money + 1]_vars


(* the players who have signalled in the current phase, the sender of the
   signal handled in this step among them *)
Signalled(msg, ws) ==
  LET sender == IF ws \in DOMAIN sockets /\ sockets[ws].playerId # NoPlayer
                  THEN {sockets[ws].playerId} ELSE {}
  IN CASE config.phase = "market_phase" /\ msg.type \in {"market_bid", "market_skip"} ->
            {e.playerId : e \in Range(pending.market)} \cup pending.marketSkip \cup sender
       [] config.phase = "buy_phase" /\ msg.type = "buy_done" ->
            pending.buyDone \cup sender
       [] config.phase = "path_phase" /\ msg.type = "path_done" ->
            pending.pathReady \cup sender
       [] OTHER -> {}

(* C30: a phase is left before its deadline only when every player of the room
   has signalled in it (market_phase: bid or skip; buy_phase: buy_done;
   path_phase: path_done or auto-ready); auction, round_start and round_end
   are never left before their deadline; a tick before the deadline changes
   nothing in the room. *)
C30_EarlyExitOnlyWhenAllSignalled ==
  [][(config.phase \in TimedPhases /\ config.phaseEndsAt > 0) =>
       /\ config'.phase # config.phase =>
            /\ config.phase \in {"market_phase", "buy_phase", "path_phase"}
            /\ DOMAIN players \subseteq Signalled(trace'.msg, trace'.ws)
       /\ trace'.msg.type = "tick" => storage' = storage /\ alarmAt' = alarmAt]_vars


(* C31: in market_phase each player has at most one market bid on record and
   never both a bid and a skip, and every bid on record names a die of the
   market and an amount of at least the minimum price. *)
C31_OneValidBidOrSkip ==
  config.phase = "market_phase" =>
    /\ \A i, j \in DOMAIN pending.market :
         pending.market[i].playerId = pending.market[j].playerId => i = j
    /\ \A i \in DOMAIN pending.market :
         /\ pending.market[i].playerId \notin pending.marketSkip
         /\ pending.market[i].dieIndex \in 0..(Len(config.marketDice) - 1)
         /\ pending.market[i].amount # NaN
         /\ pending.market[i].amount >= config.marketMinPrice

(* the entries of queue q for cells of dice value v *)
QueuedOfValue(q, v) == {i \in DOMAIN q : grid[q[i].cellId].diceValue = v}

(* no cell twice in queue q, and per dice value no more cells than dice *)
WithinHand(q, dice) ==
  /\ \A i, j \in DOMAIN q : q[i].cellId = q[j].cellId => i = j
  /\ \A v \in {grid[q[i].cellId].diceValue : i \in DOMAIN q} :
       Cardinality(QueuedOfValue(q, v)) <= DiceCount(dice, v)

QueuesWithinHands ==
  \A p \in DOMAIN players : WithinHand(QueuedActs(pending, p), players[p].dice)

(* cell c is not in queue q and no die is left to back it *)
Exceeds(q, dice, c) ==
  /\ c \in DOMAIN grid
  /\ ~grid[c].blocked
  /\ \A i \in DOMAIN q : q[i].cellId # c
  /\ Cardinality(QueuedOfValue(q, grid[c].diceValue)) >= DiceCount(dice, grid[c].diceValue)

WouldExceed(p, c) == Exceeds(QueuedActs(pending, p), players[p].dice, c)

(* C32: in buy_phase each player's queue of buy intents has no two intents for
   one cell and, for every dice value, at most as many cells of that value as
   the player holds dice of it; a buy_cell that would exceed this is answered
   with an error and leaves the queue as it was; an accepted buy_cell or
   buy_cell_cancel withdraws the sender's done flag. *)
C32_QueueWithinHand ==
  [][/\ config'.phase = "buy_phase" => QueuesWithinHands'
     /\ (config.phase = "buy_phase" /\ trace'.msg.type \in {"buy_cell", "buy_cell_cancel"}
           /\ sockets[trace'.ws].playerId # NoPlayer) =>
          LET p == sockets[trace'.ws].playerId
              c == trace'.msg.cellId
          IN /\ (trace'.msg.type = "buy_cell" /\ WouldExceed(p, c)) =>
                  /\ pending' = pending
                  /\ SentTo(trace'.sent, trace'.ws) = <<"error">>
             /\ (trace'.msg.type = "buy_cell" /\ pending'.buy # pending.buy) =>
                  p \notin pending'.buyDone
             /\ trace'.msg.type = "buy_cell_cancel" =>
                  /\ p \notin pending'.buyDone
                  /\ \A i \in DOMAIN QueuedActs(pending', p) :
                       QueuedActs(pending', p)[i].cellId # c]_vars

(* a player whose queue holds as many cells of a value as dice of it was turned
   away with an error on asking for one more *)
C32_Witness ==
  /\ config.phase = "buy_phase"
  /\ trace.msg.type = "buy_cell"
  /\ sockets[trace.ws].playerId # NoPlayer
  /\ WouldExceed(sockets[trace.ws].playerId, trace.msg.cellId)
  /\ Len(QueuedActs(pending, sockets[trace.ws].playerId)) = 2
  /\ SentTo(trace.sent, trace.ws) = <<"error">>

(* the hand without the die at index i (counted from 0) *)
Without(dice, i) ==
  [k \in 1..(Len(dice) - 1) |-> IF k <= i THEN dice[k] ELSE dice[k + 1]]

(* C33: in market_phase a market_recycle with a valid hand index takes exactly
   the die at that index out of the sender's hand and adds exactly 3 to the
   sender's money, whether or not the sender has bid or skipped, and leaves
   the recorded bids and skips and every other player as they were; with an
   invalid index nothing changes and the sender is sent an error. *)
C33_RecycleOneDieForThree ==
  [][(/\ trace'.msg.type = "market_recycle"
      /\ config.phase = "market_phase"
      /\ sockets[trace'.ws].playerId \in DOMAIN players) =>
       LET p == sockets[trace'.ws].playerId
           i == trace'.msg.dieIndex
       IN IF i \in 0..(Len(players[p].dice) - 1)
            THEN /\ players'[p].dice = Without(players[p].dice, i)
                 /\ players'[p].money = players[p].money + 3
                 /\ \A q \in DOMAIN players : q # p => players'[q] = players[q]
                 /\ DOMAIN players' = DOMAIN players
                 /\ <<config', grid', pending', submittedPaths', winnerId'>>
                      = <<config, grid, pending, submittedPaths, winnerId>>
            ELSE /\ storage' = storage
                 /\ SentTo(trace'.sent, trace'.ws) = <<"error">>]_vars

(* a player with a bid on record has recycled the middle die of a full hand *)
C33_Witness ==
  /\ trace.msg.type = "market_recycle"
  /\ trace.msg.dieIndex = 1
  /\ trace.phase = "market_phase"
  /\ config.phase = "market_phase"
  /\ sockets[trace.ws].playerId \in DOMAIN players
  /\ \E b \in Range(pending.market) : b.playerId = sockets[trace.ws].playerId
  /\ Len(players[sockets[trace.ws].playerId].dice) = HAND_SIZE - 1
  /\ players[sockets[trace.ws].playerId].money = STARTING_MONEY + 1 + RECYCLE_PAYMENT

(* round_end is entered *)
EntersRoundEnd == config.phase # "round_end" /\ config'.phase = "round_end"

(* C34: when path_phase is resolved, every player whose hand is empty gets
   exactly 3 dice and every other hand is left as it is, so that on entering
   round_end every player holds at least one die; an empty hand is not dealt
   a new one at any other time. *)
C34_EmptyHandsRedealtAtPathEnd ==
  [][/\ (config.phase = "path_phase" /\ config'.phase = "round_end") =>
          \A p \in DOMAIN players :
            IF players[p].dice = <<>>
              THEN Len(players'[p].dice) = 3
              ELSE players'[p].dice = players[p].dice
     /\ EntersRoundEnd =>
          /\ DOMAIN players' = DOMAIN players
          /\ \A p \in DOMAIN players' : Len(players'[p].dice) >= 1
     /\ ~EntersRoundEnd =>
          \A p \in DOMAIN players \cap DOMAIN players' :
            players[p].dice = <<>> => Len(players'[p].dice) <= 1]_vars

(* round_end was entered after a hand had run empty: the hand is full again and
   another player holds the smaller hand they had *)
C34_Witness ==
  /\ config.phase = "round_end"
  /\ config.roundIndex >= 1
  /\ \E p, q \in DOMAIN players :
       /\ Len(players[p].dice) = 3
       /\ CellsOf(p) # {}
       /\ Cardinality(CellsOf(p)) = 3
       /\ Len(players[q].dice) \in 1..2

(* the pairs of owner entries of two players with one role *)
SameRolePairs(owners) ==
  {pair \in (DOMAIN owners) \X (DOMAIN owners) :
     /\ pair[1] < pair[2]
     /\ owners[pair[1]].role = owners[pair[2]].role
     /\ owners[pair[1]].playerId # owners[pair[2]].playerId}

(* C35: two owner entries of one cell have the same role only as the result of
   a tied auction for the cell: no step other than the resolution of an
   auction gives a cell a second producer owner or a second seller owner. *)
C35_SameRoleOnlyByTiedAuction ==
  [][\A c \in DOMAIN grid \cap DOMAIN grid' :
       Cardinality(SameRolePairs(grid'[c].owners)) > Cardinality(SameRolePairs(grid[c].owners))
         => config.phase = "auction"]_vars

(* C36: the player list changes only in lobby: once start_game has succeeded no
   player is added or removed until cleanup, whatever join, rejoin or
   connection-close events occur, and the room has at least 2 players in
   every phase from round_start to ended. *)
C36_PlayersFixedAfterStart ==
  [][/\ (config.phase \in TimedPhases \cup {"ended"} /\ config'.phase # "none") =>
          Len(players') = Len(players)
     /\ config'.phase \in TimedPhases \cup {"ended"} => Len(players') >= 2]_vars

(* a join arrived after the game had started and the room still has its two
   players *)
C36_Witness ==
  /\ trace.msg.type \in {"join", "rejoin"}
  /\ trace.phase \in TimedPhases
  /\ config.phase \in TimedPhases
  /\ Len(players) = 2
  /\ \E w \in DOMAIN sockets : ~sockets[w].open

(* the Lobby holds nothing for the room: it is off the list and has no entry *)
Deregistered(lb) == RoomId \notin Range(lb.rooms) /\ lb.meta = {}

(* C37: once cleanup has taken a room off the Lobby, it stays off: whatever
   messages, ticks or connection-close events the room handles afterwards,
   the Lobby never again holds an entry for the room id and joinRoom for it
   answers 'Room not found'. *)
C37_StaysDeregistered ==
  [][(config.phase = "none" /\ Deregistered(lobby)) =>
       Deregistered(lobby') /\ joinRoom(lobby') = "Room not found"]_vars

(* The path_phase of a table of two, on the board of radius 1: player 1 owns the
   centre as producer and its south-east neighbour, on the rim, as seller. *)
EdgeScript ==
  Everyone(2, "market_skip")
    \o <<Buy(1, 4, "producer"), Buy(1, 5, "seller")>>
    \o Everyone(2, "buy_done")

(* the hexes of a path at the rim: the centre, the seller's hex and the hex
   beyond it, which the board of radius 1 does not hold *)
EdgeHexes == {<<0, 0>>, <<0, 1>>, <<0, 2>>}

EdgePaths == UNION {[1..k -> EdgeHexes] : k \in 1..(MaxPathHexes + 1)}

EdgeInit ==
  \E seed \in Seeds : PathFrom(Run(initialize(seed, 1), MarketScript(2) \o EdgeScript))

EdgeNext == PathOf(EdgePaths) \/ PathDone \/ AlarmFires \/ Elapse

EdgeSpec == EdgeInit /\ [][EdgeNext]_vars

(* C38: every hex of an accepted path is an unblocked cell of the board, so a
   path naming a coordinate the grid does not hold is never stored. *)
C38_PathHexesOnBoard ==
  \A e \in submittedPaths :
    \A k \in DOMAIN e.path :
      CellOn(e.path[k]) # 0 /\ ~grid[CellOn(e.path[k])].blocked

(* C39: no player's money is ever negative, whatever is bid: a top bidder in
   several conflicts, or one who bids more than they own, is never charged
   more than they hold. *)
C39_MoneyNeverNegative == \A p \in DOMAIN players : players[p].money >= 0

(* an auction was resolved in which one player offered the highest bid in two
   conflicts, the two bids together exceeding their money, and was charged for
   the first only *)
C39_Witness ==
  /\ AuctionResolved
  /\ \E p \in DOMAIN players :
       \E i, j \in DOMAIN res.conflicts :
         /\ i < j
         /\ p \in Contenders(i) /\ p \in Contenders(j)
         /\ Offer(i, p) = TopOffer(i) /\ Offer(j, p) = TopOffer(j)
         /\ Offer(i, p) + Offer(j, p) > res.pl[p].money
         /\ players[p].money = res.pl[p].money - Offer(i, p)

(* C40: a connection bound to no player cannot change the room's stored state
   with any message other than join, rejoin or a tick after the deadline; in
   particular its start_game does not start the game. *)
C40_UnboundChangesNothing ==
  [][(/\ trace'.msg.type \in GameMessages \cup {"start_game"}
      /\ sockets[trace'.ws].playerId = NoPlayer) =>
       storage' = storage]_vars

====
